---- MODULE Spec2Model ----
(***************************************************************************)
(* Speech Fixer: the page's edit pipeline (handleReplace), the splice      *)
(* endpoint, the splicer (spliceAudio) and the transcript reconciliation.  *)
(*                                                                         *)
(* Times are exact rationals [n, d] (d > 0); d = 0 stands for NaN.  Texts   *)
(* are sequences of one-character strings, so joining token texts is       *)
(* sequence concatenation.  An optional value is a sequence of length 0    *)
(* or 1.                                                                   *)
(***************************************************************************)
EXTENDS Integers, Sequences, FiniteSets, TLC

\* ---------------------------------------------------------------- bounds
MaxTokens == 2
MaxEdits == 2
MaxUploads == 2
MaxOps == 3
MaxDirect == 1
MaxTick == 2
MaxTime == 3
MaxJobs == 2
MaxVoices == 3

None == << >>
Some(x) == << x >>

\* ------------------------------------------------------------- rationals
RECURSIVE GCD(_, _)
GCD(a, b) == IF b = 0 THEN a ELSE GCD(b, a % b)

Abs(x) == IF x < 0 THEN -x ELSE x

Norm(n, d) ==
  LET g == GCD(Abs(n), d)
  IN  IF n = 0 THEN [n |-> 0, d |-> 1]
      ELSE [n |-> IF n < 0 THEN -((-n) \div g) ELSE n \div g, d |-> d \div g]

R(k) == [n |-> k, d |-> 1]
NaN == [n |-> 0, d |-> 0]
isNaN(x) == x.d = 0

RAdd(a, b) == Norm(a.n * b.d + b.n * a.d, a.d * b.d)
RSub(a, b) == Norm(a.n * b.d - b.n * a.d, a.d * b.d)
\* a * (p / q), q > 0
RMulFrac(a, p, q) == Norm(a.n * p, a.d * q)
\* comparisons are false when an operand is NaN, as in JavaScript
RLt(a, b) == ~isNaN(a) /\ ~isNaN(b) /\ a.n * b.d < b.n * a.d
RGt(a, b) == RLt(b, a)
RLe(a, b) == ~isNaN(a) /\ ~isNaN(b) /\ a.n * b.d <= b.n * a.d
RMin(a, b) == IF RLt(a, b) THEN a ELSE b
RMax(a, b) == IF RLt(a, b) THEN b ELSE a

\* ------------------------------------------------------------ transcript
RECURSIVE Join(_)
\* words.map(w => w.text).join("")
Join(ws) == IF ws = << >> THEN << >> ELSE Head(ws).text \o Join(Tail(ws))

\* what the transcription service can return for one token: a short word,
\* a longer word, a spacing token that spans a pause, a punctuation mark
TokenShapes ==
  { [type |-> "word", text |-> <<"a">>, dur |-> 1],
    [type |-> "word", text |-> <<"b", "c">>, dur |-> 2],
    [type |-> "spacing", text |-> <<" ">>, dur |-> 1],
    [type |-> "punctuation", text |-> <<",">>, dur |-> 0] }

RECURSIVE WordsFrom(_, _)
\* tokens laid out back to back from time t, sorted and non-overlapping
WordsFrom(shapes, t) ==
  IF shapes = << >> THEN << >>
  ELSE LET s == Head(shapes)
       IN  << [text |-> s.text, start |-> R(t), end |-> R(t + s.dur), type |-> s.type] >>
             \o WordsFrom(Tail(shapes), t + s.dur)

ShapeSeqs == UNION { [1..k -> TokenShapes] : k \in 1..MaxTokens }

ServiceWords == { WordsFrom(s, 0) : s \in ShapeSeqs }

\* resultData.text as the service reports it for the given words: the same
\* characters, no text at all, or its own rendering of the transcript
ServiceTexts(ws) == { Join(ws), << >>, Join(ws) \o <<".">> }

\* transcribe route: text: resultData.text || words.map(w => w.text).join("")
TranscriptionOf(ws, serviceText) ==
  [words |-> ws, text |-> IF serviceText # << >> THEN serviceText ELSE Join(ws)]

\* words.slice(from, to) with 0-based indexes, to exclusive, clamped
Slice(ws, from, to) ==
  LET lo == IF from < 0 THEN 0 ELSE from
      hi == IF to > Len(ws) THEN Len(ws) ELSE to
  IN  IF lo >= hi THEN << >> ELSE SubSeq(ws, lo + 1, hi)

IsWord(w) == w.type = "word"
WordItems(ws) == SelectSeq(ws, IsWord)

\* a commitSelection that takes the times from the first and last token of
\* the range, whatever their kind
CommitSelectionBug(ws, start, end) ==
  LET selectedWords == Slice(ws, start, end + 1)
      wordItems == WordItems(selectedWords)
  IN  IF wordItems = << >> THEN None
      ELSE Some([startIndex |-> start, endIndex |-> end,
                 startTime |-> selectedWords[1].start,
                 endTime |-> selectedWords[Len(selectedWords)].end,
                 selectedText |-> Join(selectedWords)])
\* TranscriptEditor.commitSelection(start, end), 0-based inclusive indexes;
\* the result is the selection handed to onSelectionChange, or None
CommitSelection(ws, start, end) ==
  LET selectedWords == Slice(ws, start, end + 1)
      wordItems == WordItems(selectedWords)
  IN  IF wordItems = << >> THEN None
      ELSE Some([startIndex |-> start, endIndex |-> end,
                 startTime |-> wordItems[1].start,
                 endTime |-> wordItems[Len(wordItems)].end,
                 selectedText |-> Join(selectedWords)])

RECURSIVE RegionScan(_, _, _, _, _)
\* the loop of handleRegionSelect from token i on; acc holds startIndex and
\* endIndex (-1 while unset)
RegionScan(ws, start, end, i, acc) ==
  IF i >= Len(ws) THEN acc
  ELSE LET word == ws[i + 1]
           both == [startIndex |-> IF acc.startIndex = -1 THEN i ELSE acc.startIndex,
                    endIndex |-> i]
           next == IF word.type # "word" THEN acc
                   ELSE IF RLe(start, word.start) /\ RLe(word.end, end) THEN both
                   ELSE IF RLe(word.start, start) /\ RLe(start, word.end) THEN both
                   ELSE IF RLe(word.start, end) /\ RLe(end, word.end)
                        THEN [acc EXCEPT !.endIndex = i]
                   ELSE acc
       IN  RegionScan(ws, start, end, i + 1, next)

\* the selection handleRegionSelect sets for the region [start, end], or None
RegionSelection(ws, start, end) ==
  LET r == RegionScan(ws, start, end, 0, [startIndex |-> -1, endIndex |-> -1])
      selectedWords == Slice(ws, r.startIndex, r.endIndex + 1)
      wordItems == WordItems(selectedWords)
  IN  IF r.startIndex # -1 /\ r.endIndex # -1
      THEN Some([startIndex |-> r.startIndex, endIndex |-> r.endIndex,
                 startTime |-> IF wordItems # << >> THEN wordItems[1].start ELSE start,
                 endTime |-> IF wordItems # << >> THEN wordItems[Len(wordItems)].end
                             ELSE end,
                 selectedText |-> Join(selectedWords)])
      ELSE None

\* the reconciliation inside handleReplace
OriginalDuration(sel) == RSub(sel.endTime, sel.startTime)
EstimatedDuration(sel, newText) ==
  RMulFrac(OriginalDuration(sel), Len(newText), Len(sel.selectedText))
TimeOffset(sel, newText) == RSub(EstimatedDuration(sel, newText), OriginalDuration(sel))

\* the new token keeps the end of the replaced span
NewWordBug(sel, newText) ==
  [text |-> newText, start |-> sel.startTime, end |-> sel.endTime, type |-> "word"]
NewWord(sel, newText) ==
  [text |-> newText, start |-> sel.startTime,
   end |-> RAdd(sel.startTime, EstimatedDuration(sel, newText)), type |-> "word"]

\* newWords.splice(startIndex, endIndex - startIndex + 1, newWord)
SpliceWordsBug(ws, sel, newWord) ==
  Slice(ws, 0, sel.startIndex) \o << newWord >> \o Slice(ws, sel.endIndex, Len(ws))
SpliceWords(ws, sel, newWord) ==
  Slice(ws, 0, sel.startIndex) \o << newWord >> \o Slice(ws, sel.endIndex + 1, Len(ws))

\* for (i = startIndex + 1; i < newWords.length; i++) shift start and end
ShiftWordsBug(ws, sel, off) ==
  [i \in 1..Len(ws) |->
     IF i - 1 >= sel.startIndex + 1
     THEN [ws[i] EXCEPT !.start = RAdd(@, off)]
     ELSE ws[i]]
ShiftWords(ws, sel, off) ==
  [i \in 1..Len(ws) |->
     IF i - 1 >= sel.startIndex + 1
     THEN [ws[i] EXCEPT !.start = RAdd(@, off), !.end = RAdd(@, off)]
     ELSE ws[i]]

\* the shifting loop starts at index 0
ReconcileWordsBug(ws, sel, newText) ==
  ShiftWords(SpliceWords(ws, sel, NewWord(sel, newText)), [sel EXCEPT !.startIndex = -1],
             TimeOffset(sel, newText))
ReconcileWords(ws, sel, newText) ==
  ShiftWords(SpliceWords(ws, sel, NewWord(sel, newText)), sel, TimeOffset(sel, newText))

\* setTranscription({...transcription, words: newWords, text: join})
ReconcileBug(tr, sel, newText) ==
  [words |-> ReconcileWords(tr.words, sel, newText), text |-> tr.text \o newText]
Reconcile(tr, sel, newText) ==
  LET newWords == ReconcileWords(tr.words, sel, newText)
  IN  [words |-> newWords, text |-> Join(newWords)]

\* ------------------------------------------------- the reconciliation in memory
\* a heap holds token objects and arrays of references to them, both by
\* address (their index); an array or object written in place changes for
\* every holder of its address
LoadWords(ws) == [objs |-> ws, arrs |-> << [i \in 1..Len(ws) |-> i] >>]
ReadWords(h, a) == [i \in 1..Len(h.arrs[a]) |-> h.objs[h.arrs[a][i]]]

\* const newWords = transcription.words: the same array under another name
CopyArrayBug(h, a) == [heap |-> h, addr |-> a]
\* const newWords = [...transcription.words]: a new array of the same references
CopyArray(h, a) ==
  [heap |-> [h EXCEPT !.arrs = Append(@, h.arrs[a])], addr |-> Len(h.arrs) + 1]

\* an object literal: a new object
NewObject(h, token) == [heap |-> [h EXCEPT !.objs = Append(@, token)], addr |-> Len(h.objs) + 1]

\* newWords.splice(startIndex, deleteCount, newWord) changes the array it is
\* called on
SpliceArray(h, a, startIndex, deleteCount, ref) ==
  [h EXCEPT !.arrs[a] = Slice(@, 0, startIndex) \o << ref >>
                          \o Slice(@, startIndex + deleteCount, Len(@))]

RECURSIVE ShiftArray(_, _, _, _)
\* for (i; i < newWords.length; i++) newWords[i] = {...newWords[i], start + timeOffset,
\* end + timeOffset}: a new object per token, stored into the array
ShiftArray(h, a, i, off) ==
  IF i >= Len(h.arrs[a]) THEN h
  ELSE LET old == h.objs[h.arrs[a][i + 1]]
           made == NewObject(h, [old EXCEPT !.start = RAdd(@, off), !.end = RAdd(@, off)])
       IN  ShiftArray([made.heap EXCEPT !.arrs[a][i + 1] = made.addr], a, i + 1, off)

\* the transcript update of handleReplace on the heap; addr is the array
\* handed to setTranscription
ReconcileHeap(h, words, sel, newText) ==
  LET copied == CopyArray(h, words)
      newWord == NewObject(copied.heap, NewWord(sel, newText))
      spliced == SpliceArray(newWord.heap, copied.addr, sel.startIndex,
                             sel.endIndex - sel.startIndex + 1, newWord.addr)
  IN  [heap |-> ShiftArray(spliced, copied.addr, sel.startIndex + 1, TimeOffset(sel, newText)),
       addr |-> copied.addr]

\* ------------------------------------------------------------------ disk
\* a temporary directory is <<mkdtemp prefix, unique suffix>>; `dirs` holds
\* the directories that exist, `files` the contents of the files of the
\* splice request in progress, by <<prefix, file name>>
Prefixes == {"splice-op-", "splice-"}
FileNames == {"original.mp3", "replacement.mp3", "output.mp3",
              "before.mp3", "after.mp3", "replacement_normalized.mp3", "list.txt"}
AllPaths == Prefixes \X FileNames

InDir(dir, name) == <<dir[1], name>>
Exists(f, p) == f[p] # None
NoFiles == [p \in AllPaths |-> None]

\* fs.writeFile / an ffmpeg output: needs the directory to exist
WriteFile(ds, k, f, p, content) ==
  IF <<p[1], k>> \in ds THEN [f EXCEPT ![p] = Some(content)] ELSE f

\* fs.rm(dir, {recursive: true, force: true})
RmFiles(f, dir) == [p \in AllPaths |-> IF p[1] = dir[1] THEN None ELSE f[p]]

Audio(dur) == [kind |-> "audio", dur |-> dur]

\* the canonical encoding applied by extractSegment and normalizeAudio
Canonical == [codec |-> "libmp3lame", frequency |-> 44100, bitrate |-> 128, channels |-> 2]

\* extractSegment(inputPath, startTime, endTime, outputPath):
\* setStartTime(startTime), setDuration(endTime - startTime)
ExtractSegmentBug(src, startTime, endTime) ==
  [kind |-> "cut", src |-> src, from |-> startTime, len |-> endTime, format |-> Canonical]
ExtractSegment(src, startTime, endTime) ==
  [kind |-> "cut", src |-> src, from |-> startTime, len |-> RSub(endTime, startTime),
   format |-> Canonical]

\* a normalization that keeps the channel layout of its input (mono speech)
NormalizeAudioBug(src) ==
  [kind |-> "norm", src |-> src, format |-> [Canonical EXCEPT !.channels = 1]]
\* normalizeAudio(inputPath, outputPath)
NormalizeAudio(src) == [kind |-> "norm", src |-> src, format |-> Canonical]

\* seconds of audio in a file
DurOfPart(c) ==
  IF c.kind = "cut"
  THEN LET a == RMin(RMax(c.from, R(0)), c.src.dur)
           b == RMin(RMax(RAdd(c.from, c.len), R(0)), c.src.dur)
       IN  RMax(RSub(b, a), R(0))
  ELSE c.src.dur

RECURSIVE SumDur(_)
SumDur(parts) ==
  IF parts = << >> THEN R(0) ELSE RAdd(DurOfPart(Head(parts)), SumDur(Tail(parts)))

\* ---------------------------------------------------------------- state
VARIABLES
  audioFile,      \* page: the current audio File, or None
  audioUrl,       \* page: object URL of the current audio, or None
  transcription,  \* page: the current transcript, or None
  voiceId,        \* page: id of the cloned voice, or None
  selection,      \* page: the current WordSelection, or None
  error,          \* page: the error message shown, or None
  mutation,       \* page: what the three mutation observers show as pending
  uploads,        \* page: the handleFileSelect invocations in flight
  calls,          \* page: the handleReplace invocations in flight
  liveUrls,       \* object URLs created and not revoked
  hist,           \* the last edit to end: its outcome and what it had captured
  count,          \* uploads, edits, requests, urls, mkdtemp calls, clones, versions
  net,            \* the splice request and response in flight
  routePc,        \* splice endpoint: where POST is suspended
  sp,             \* spliceAudio: its parameters, locals and progress
  dirs,           \* the temporary directories that exist
  files,          \* the files of the splice request in progress
  pool,           \* the endpoint under concurrent requests: its invocations and the disk
  lineage,        \* page: the upload and the edits the audio and the transcript come from
  editor,         \* TranscriptEditor: selectionStart, selectionEnd, isSelecting, focusedIndex
  gen             \* GenerateMode: its state, its generateAudio run and the voices that exist

vars == <<audioFile, audioUrl, transcription, voiceId, selection, error, mutation,
          uploads, calls, liveUrls, hist, count, net, routePc, sp, dirs, files, pool,
          lineage, editor, gen>>

pageVars == <<audioFile, audioUrl, transcription, voiceId, selection, error, mutation,
              uploads, calls, liveUrls, hist>>
serverVars == <<routePc, sp, dirs, files>>
sideVars == <<pool, lineage, editor, gen>>

TaskNames == {"before", "after", "replacement"}

SpIdle ==
  [pc |-> "idle", params |-> None, tempDir |-> None, duration |-> None,
   probe |-> "none", tasks |-> [t \in TaskNames |-> "none"], firstErr |-> None,
   files |-> << >>, concat |-> "none", result |-> None, cleanup |-> "none"]

\* the local state of a TranscriptEditor just mounted
NoEditor ==
  [selectionStart |-> None, selectionEnd |-> None, isSelecting |-> FALSE,
   focusedIndex |-> None]

\* GenerateMode just mounted, no voice created yet
NoGen ==
  [voiceSample |-> FALSE, scriptText |-> << >>, generatedAudioUrl |-> None,
   voiceId |-> None, pc |-> "idle", cloned |-> None, error |-> FALSE,
   voices |-> {}, made |-> 0]

\* nothing uploaded: no audio and no transcript
NoLineage == [audio |-> None, text |-> None]
FromUpload(id) == Some([upload |-> id, edits |-> << >>])
Edited(from, id) == Some([from[1] EXCEPT !.edits = Append(@, id)])

\* no request has reached the endpoint: no mkdtemp call made, nothing on disk
NoJob ==
  [pc |-> "idle", routeDir |-> None, tempDir |-> None,
   tasks |-> [t \in TaskNames |-> "none"], failed |-> FALSE]
NoPool ==
  [jobs |-> [j \in 1..MaxJobs |-> NoJob], made |-> 0, ever |-> {}, dirs |-> {},
   disk |-> {}, last |-> {}]

\* the three mutation observers of the page: the invocation whose mutation
\* each of them currently shows as pending, or None
NoMutation == [transcribe |-> None, clone |-> None, replace |-> None]

\* no edit to remember; `applied` counts the edits applied to the transcript
NoHist == [outcome |-> "none", old |-> None, applied |-> 0]

\* `ver` counts the changes of the page's audio and transcript
NoCount ==
  [uploads |-> 0, edits |-> 0, directs |-> 0, urls |-> 0, inv |-> 0, clones |-> 0, ver |-> 0]

Init ==
  /\ audioFile = None
  /\ audioUrl = None
  /\ transcription = None
  /\ voiceId = None
  /\ selection = None
  /\ error = None
  /\ mutation = NoMutation
  /\ uploads = {}
  /\ calls = {}
  /\ liveUrls = {}
  /\ hist = NoHist
  /\ count = NoCount
  /\ net = [req |-> None, resp |-> None]
  /\ routePc = "idle"
  /\ sp = SpIdle
  /\ dirs = {}
  /\ files = NoFiles
  /\ pool = NoPool
  /\ lineage = NoLineage
  /\ editor = NoEditor
  /\ gen = NoGen

\* ------------------------------------------------------- splice endpoint
\* POST: the form fields are validated, then a fresh "splice-op-" directory
\* receives original.mp3 and replacement.mp3 and spliceAudio is called,
\* which creates its own "splice-" directory before its try block
RouteReject ==
  /\ routePc = "idle"
  /\ net.req # None
  /\ LET r == net.req[1]
     IN  /\ r.original = None \/ r.replacement = None \/ isNaN(r.startTime) \/ isNaN(r.endTime)
         /\ net' = [req |-> None,
                    resp |-> Some([caller |-> r.caller, status |-> 400, audio |-> None,
                                   error |-> IF r.original = None THEN "No original audio provided"
                                             ELSE IF r.replacement = None
                                                  THEN "No replacement audio provided"
                                                  ELSE "Invalid start or end time"])]
  /\ UNCHANGED <<sideVars, pageVars, count, serverVars>>

RouteDir == <<"splice-op-", count.inv>>
SpliceDir == <<"splice-", count.inv>>

RouteAccept ==
  /\ routePc = "idle"
  /\ net.req # None
  /\ \A t \in TaskNames : sp.tasks[t] # "running"
  /\ LET r == net.req[1]
         k == count.inv + 1
         tempDir == <<"splice-op-", k>>
         spDir == <<"splice-", k>>
         ds == dirs \cup {tempDir, spDir}
         f1 == WriteFile(ds, k, NoFiles, InDir(tempDir, "original.mp3"), r.original[1])
         f2 == WriteFile(ds, k, f1, InDir(tempDir, "replacement.mp3"), r.replacement[1])
     IN  /\ r.original # None /\ r.replacement # None
         /\ ~isNaN(r.startTime) /\ ~isNaN(r.endTime)
         /\ dirs' = ds
         /\ files' = f2
         /\ count' = [count EXCEPT !.inv = k]
         /\ routePc' = "splicing"
         /\ sp' = [SpIdle EXCEPT
                     !.pc = "probe",
                     !.tempDir = Some(spDir),
                     !.params = Some([caller |-> r.caller,
                                      originalAudioPath |-> InDir(tempDir, "original.mp3"),
                                      replacementAudioPath |-> InDir(tempDir, "replacement.mp3"),
                                      startTime |-> r.startTime,
                                      endTime |-> r.endTime,
                                      outputPath |-> InDir(tempDir, "output.mp3")])]
         /\ net' = [net EXCEPT !.req = None]
  /\ UNCHANGED <<sideVars, pageVars>>

\* ------------------------------------------------------------ spliceAudio
\* the tasks pushed to `promises` once the duration is known
\* the 'after' extraction is also pushed when endTime equals the duration
LaunchedBug(p, duration) ==
  [t \in TaskNames |->
     CASE t = "before" -> IF RGt(p.startTime, R(0)) THEN "running" ELSE "none"
       [] t = "after" -> IF RLe(p.endTime, duration) THEN "running" ELSE "none"
       [] OTHER -> "running"]
Launched(p, duration) ==
  [t \in TaskNames |->
     CASE t = "before" -> IF RGt(p.startTime, R(0)) THEN "running" ELSE "none"
       [] t = "after" -> IF RLt(p.endTime, duration) THEN "running" ELSE "none"
       [] OTHER -> "running"]

\* getAudioDuration resolves with metadata.format.duration || 0
ProbedDuration(src, hasDuration) == IF hasDuration THEN src.dur ELSE R(0)

GetAudioDurationResolve ==
  /\ sp.pc = "probe"
  /\ \E hasDuration \in BOOLEAN :
       LET p == sp.params[1]
           src == files[p.originalAudioPath][1]
           duration == ProbedDuration(src, hasDuration)
       IN  sp' = [sp EXCEPT !.pc = "await",
                            !.probe = IF hasDuration THEN "ok" ELSE "noduration",
                            !.duration = Some(duration),
                            !.tasks = Launched(p, duration)]
  /\ UNCHANGED <<sideVars, pageVars, count, net, routePc, dirs, files>>

GetAudioDurationReject ==
  /\ sp.pc = "probe"
  /\ sp' = [sp EXCEPT !.pc = "finally", !.probe = "err",
                      !.result = Some([ok |-> FALSE, value |-> "ffprobe"])]
  /\ UNCHANGED <<sideVars, pageVars, count, net, routePc, dirs, files>>

\* both extractions are given the path of before.mp3
TaskPathBug(t) ==
  InDir(sp.tempDir[1],
        CASE t = "before" -> "before.mp3"
          [] t = "after" -> "before.mp3"
          [] OTHER -> "replacement_normalized.mp3")
TaskPath(t) ==
  InDir(sp.tempDir[1],
        CASE t = "before" -> "before.mp3"
          [] t = "after" -> "after.mp3"
          [] OTHER -> "replacement_normalized.mp3")

TaskOutput(t) ==
  LET p == sp.params[1]
      original == files[p.originalAudioPath]
      replacement == files[p.replacementAudioPath]
  IN  CASE t = "before" -> ExtractSegment(original[1], R(0), p.startTime)
        [] t = "after" -> ExtractSegment(original[1], p.endTime, sp.duration[1])
        [] OTHER -> NormalizeAudio(replacement[1])

\* what is left of spliceAudio's frame once it has returned: the ffmpeg runs
\* still in progress and what they refer to
Release(s) ==
  IF \E t \in TaskNames : s.tasks[t] = "running"
  THEN [SpIdle EXCEPT !.params = s.params, !.tempDir = s.tempDir, !.duration = s.duration,
                      !.cleanup = s.cleanup,
                      !.tasks = [t \in TaskNames |->
                                   IF s.tasks[t] = "running" THEN "running" ELSE "none"]]
  ELSE [SpIdle EXCEPT !.cleanup = s.cleanup]

\* an extractSegment / normalizeAudio ffmpeg run ends
TaskEnd(t) ==
  /\ sp.tasks[t] = "running"
  /\ LET s == [sp EXCEPT !.tasks[t] = "ok"]
     IN  sp' = IF sp.pc = "idle" THEN Release(s) ELSE s
  /\ files' = WriteFile(dirs, count.inv, files, TaskPath(t), TaskOutput(t))
  /\ UNCHANGED <<sideVars, pageVars, count, net, routePc, dirs>>

TaskError(t) ==
  /\ sp.tasks[t] = "running"
  /\ LET s == [sp EXCEPT !.tasks[t] = "failed",
                         !.firstErr = IF @ = None THEN Some(t) ELSE @]
     IN  sp' = IF sp.pc = "idle" THEN Release(s) ELSE s
  /\ UNCHANGED <<sideVars, pageVars, count, net, routePc, dirs, files>>

\* the concat list built after await Promise.all(promises)
ConcatFilesBug(p, duration, dir) ==
  << InDir(dir, "before.mp3"), InDir(dir, "replacement_normalized.mp3") >>
    \o (IF RLt(p.endTime, duration) THEN << InDir(dir, "after.mp3") >> ELSE << >>)
ConcatFiles(p, duration, dir) ==
  (IF RGt(p.startTime, R(0)) THEN << InDir(dir, "before.mp3") >> ELSE << >>)
    \o << InDir(dir, "replacement_normalized.mp3") >>
    \o (IF RLt(p.endTime, duration) THEN << InDir(dir, "after.mp3") >> ELSE << >>)

\* Promise.all resolves once every pushed task has resolved
AllResolvedBug(tasks) == \A t \in TaskNames : tasks[t] # "running"
AllResolved(tasks) == \A t \in TaskNames : tasks[t] \in {"none", "ok"}

PromiseAllResolve ==
  /\ sp.pc = "await"
  /\ AllResolved(sp.tasks)
  /\ LET list == ConcatFiles(sp.params[1], sp.duration[1], sp.tempDir[1])
     IN  \/ /\ files' = WriteFile(dirs, count.inv, files, InDir(sp.tempDir[1], "list.txt"),
                                  [kind |-> "list", files |-> list])
            /\ sp' = [sp EXCEPT !.pc = "concat", !.files = list]
         \/ /\ files' = files
            /\ sp' = [sp EXCEPT !.pc = "finally", !.files = list,
                                !.result = Some([ok |-> FALSE, value |-> "writeFile"])]
  /\ UNCHANGED <<sideVars, pageVars, count, net, routePc, dirs>>

\* Promise.all rejects with the first rejection; the other tasks keep running
PromiseAllReject ==
  /\ sp.pc = "await"
  /\ sp.firstErr # None
  /\ sp' = [sp EXCEPT !.pc = "finally",
                      !.result = Some([ok |-> FALSE, value |-> sp.firstErr[1]])]
  /\ UNCHANGED <<sideVars, pageVars, count, net, routePc, dirs, files>>

\* concatenateAudio(listPath, outputPath): ffmpeg reads the listed files
ListedFiles(f, listPath) == f[listPath][1].files

ConcatInput(f, listPath) ==
  LET list == ListedFiles(f, listPath)
  IN  [i \in 1..Len(list) |-> f[list[i]][1]]

\* the output is encoded again: audioCodec, audioFrequency, audioBitrate and
\* audioChannels are set on the concat command as well
ConcatOutput(parts) == [kind |-> "concat", parts |-> parts, format |-> Canonical]

ConcatenateAudio ==
  /\ sp.pc = "concat"
  /\ LET p == sp.params[1]
         listPath == InDir(sp.tempDir[1], "list.txt")
         list == ListedFiles(files, listPath)
     IN  \/ /\ \A i \in 1..Len(list) : Exists(files, list[i])
            /\ files' = WriteFile(dirs, count.inv, files, p.outputPath,
                                  ConcatOutput(ConcatInput(files, listPath)))
            /\ sp' = [sp EXCEPT !.pc = "finally", !.concat = "ok",
                                !.result = Some([ok |-> TRUE, value |-> "outputPath"])]
         \/ /\ files' = files
            /\ sp' = [sp EXCEPT !.pc = "finally", !.concat = "failed",
                                !.result = Some([ok |-> FALSE, value |-> "concat"])]
  /\ UNCHANGED <<sideVars, pageVars, count, net, routePc, dirs>>

\* finally { await fs.rm(tempDir, ...).catch(() => {}) }: the removal may
\* itself fail, which is swallowed
FinallyBug(removed) ==
  /\ sp.pc = "finally"
  /\ LET ran == sp.result[1].ok
     IN  /\ sp' = [sp EXCEPT !.pc = "returned",
                             !.cleanup = IF ~ran THEN "none"
                                         ELSE IF removed THEN "removed" ELSE "failed"]
         /\ dirs' = IF ran /\ removed THEN dirs \ {sp.tempDir[1]} ELSE dirs
         /\ files' = IF ran /\ removed THEN RmFiles(files, sp.tempDir[1]) ELSE files
  /\ UNCHANGED <<sideVars, pageVars, count, net, routePc>>
Finally(removed) ==
  /\ sp.pc = "finally"
  /\ sp' = [sp EXCEPT !.pc = "returned",
                      !.cleanup = IF removed THEN "removed" ELSE "failed"]
  /\ dirs' = IF removed THEN dirs \ {sp.tempDir[1]} ELSE dirs
  /\ files' = IF removed THEN RmFiles(files, sp.tempDir[1]) ELSE files
  /\ UNCHANGED <<sideVars, pageVars, count, net, routePc>>

\* ------------------------------------------- splice endpoint, second half
\* spliceAudio resolved: read output.mp3, start removing the directory
\* without awaiting it, answer 200
RouteRespond ==
  /\ routePc = "splicing"
  /\ sp.pc = "returned"
  /\ sp.result[1].ok
  /\ LET p == sp.params[1]
         out == files[p.outputPath][1]
     IN  net' = [net EXCEPT !.resp = Some([caller |-> p.caller, status |-> 200,
                                           audio |-> Some(Audio(SumDur(out.parts))),
                                           error |-> ""])]
  /\ routePc' = "removing"
  /\ sp' = Release(sp)
  /\ UNCHANGED <<sideVars, pageVars, count, dirs, files>>

\* spliceAudio rejected: catch answers 500 with the error's message
RouteCatch ==
  /\ routePc = "splicing"
  /\ sp.pc = "returned"
  /\ ~sp.result[1].ok
  /\ net' = [net EXCEPT !.resp = Some([caller |-> sp.params[1].caller, status |-> 500,
                                       audio |-> None, error |-> sp.result[1].value])]
  /\ routePc' = "idle"
  /\ sp' = Release(sp)
  /\ UNCHANGED <<sideVars, pageVars, count, dirs, files>>

\* fs.rm(tempDir, {recursive: true, force: true}).catch(() => {})
RouteRm(removed) ==
  /\ routePc = "removing"
  /\ routePc' = "idle"
  /\ dirs' = IF removed THEN dirs \ {RouteDir} ELSE dirs
  /\ files' = IF removed THEN RmFiles(files, RouteDir) ELSE files
  /\ UNCHANGED <<sideVars, pageVars, count, net, sp>>

\* ------------------------------------------- the splice endpoint, from outside
\* the segments spliceAudio concatenates for a request and a probed duration
SplicedParts(r, duration) ==
  (IF RGt(r.startTime, R(0))
   THEN << ExtractSegment(r.original[1], R(0), r.startTime) >> ELSE << >>)
    \o << NormalizeAudio(r.replacement[1]) >>
    \o (IF RLt(r.endTime, duration)
        THEN << ExtractSegment(r.original[1], r.endTime, duration) >> ELSE << >>)

\* the answers POST can give to a well-formed request: 500 with the message
\* of the probe, of a task that was started, of the list or of the
\* concatenation; or 200 with the concatenated audio
SpliceAnswers(r) ==
  LET Fail(m) == [caller |-> r.caller, status |-> 500, audio |-> None, error |-> m]
      Done(d) == [caller |-> r.caller, status |-> 200,
                  audio |-> Some(Audio(SumDur(SplicedParts(r, d)))), error |-> ""]
      After(d) == { Fail(t) : t \in { u \in TaskNames : Launched(r, d)[u] = "running" } }
                    \cup { Fail("writeFile"), Fail("concat"), Done(d) }
  IN  { Fail("ffprobe") }
        \cup UNION { After(ProbedDuration(r.original[1], h)) : h \in BOOLEAN }

\* POST /api/splice, request to answer
PostSplice ==
  /\ net.req # None
  /\ \E a \in SpliceAnswers(net.req[1]) : net' = [req |-> None, resp |-> Some(a)]
  /\ UNCHANGED <<sideVars, pageVars, count, serverVars>>

\* ------------------------------------------------------------------ page
NewTexts == { <<"x">>, <<"y", "z", "w">> }
ReplacementDurations == { R(1), R(3) }

\* isProcessing: the overlay is shown and the inputs are disabled
IsProcessing ==
  mutation.transcribe # None \/ mutation.clone # None \/ mutation.replace # None

\* the mutation of invocation id settles: its observer, if still attached to
\* it, stops showing it as pending
Settle(m, key, id) == IF m[key] = Some(id) THEN [m EXCEPT ![key] = None] ELSE m

\* handleFileSelect up to its first await
HandleFileSelect ==
  /\ audioUrl = None
  /\ ~IsProcessing
  /\ count.uploads < MaxUploads /\ count.uploads + count.edits < MaxOps
  /\ \E dur \in 1..MaxTick :
       LET id == count.uploads + 1
           file == Audio(R(dur))
       IN  /\ audioFile' = Some(file)
           /\ uploads' = uploads \cup {[id |-> id, pc |-> "transcribe", file |-> file]}
           /\ mutation' = [NoMutation EXCEPT !.transcribe = Some(id)]
  /\ audioUrl' = Some(count.urls + 1)
  /\ liveUrls' = liveUrls \cup {count.urls + 1}
  /\ count' = [count EXCEPT !.uploads = @ + 1, !.urls = @ + 1, !.ver = @ + 1]
  /\ transcription' = None
  /\ voiceId' = None
  /\ selection' = None
  /\ error' = None
  /\ hist' = NoHist
  /\ lineage' = [audio |-> FromUpload(count.uploads + 1), text |-> None]
  /\ UNCHANGED <<pool, editor, gen, calls, net, serverVars>>

\* the duration of the uploaded recording covers its transcript
Covers(ws, audio) == RLe(ws[Len(ws)].end, audio.dur) /\ RLe(audio.dur, ws[Len(ws)].end)

\* the transcription arrives: setTranscription, then the clone request
TranscribeResolve ==
  \E u \in uploads :
    /\ u.pc = "transcribe"
    /\ \E ws \in ServiceWords :
         /\ Covers(ws, u.file)
         /\ \E serviceText \in ServiceTexts(ws) :
              transcription' = Some(TranscriptionOf(ws, serviceText))
    /\ uploads' = (uploads \ {u}) \cup {[u EXCEPT !.pc = "clone"]}
    /\ mutation' = [Settle(mutation, "transcribe", u.id) EXCEPT !.clone = Some(u.id)]
    /\ count' = [count EXCEPT !.clones = @ + 1, !.ver = @ + 1]
    /\ hist' = NoHist
    /\ lineage' = [lineage EXCEPT !.text = FromUpload(u.id)]
    /\ UNCHANGED <<pool, editor, gen, audioFile, audioUrl, voiceId, selection, error, calls, liveUrls, net,
                   serverVars>>

\* a mutation of handleFileSelect fails: the error shows if its observer is
\* still attached to it
UploadFailed(u, key, message) ==
  /\ uploads' = uploads \ {u}
  /\ mutation' = Settle(mutation, key, u.id)
  /\ error' = IF mutation[key] = Some(u.id) THEN Some(message) ELSE error
  /\ UNCHANGED <<sideVars, audioFile, audioUrl, transcription, voiceId, selection, calls, liveUrls,
                 hist, count, net, serverVars>>

TranscribeReject ==
  \E u \in uploads :
    /\ u.pc = "transcribe"
    /\ UploadFailed(u, "transcribe", "Transcription failed")

\* the clone arrives: setVoiceId with the id of the voice cloned from the file
CloneResolve ==
  \E u \in uploads :
    /\ u.pc = "clone"
    /\ voiceId' = Some(u.id)
    /\ uploads' = uploads \ {u}
    /\ mutation' = Settle(mutation, "clone", u.id)
    /\ UNCHANGED <<sideVars, audioFile, audioUrl, transcription, selection, error, calls, liveUrls,
                   hist, count, net, serverVars>>

CloneReject ==
  \E u \in uploads :
    /\ u.pc = "clone"
    /\ UploadFailed(u, "clone", "Voice cloning failed")

\* handleReset: the "New File" button is shown with the audio and is never
\* disabled
HandleReset ==
  /\ audioUrl # None
  /\ liveUrls' = liveUrls \ {audioUrl[1]}
  /\ mutation' = NoMutation
  /\ audioFile' = None
  /\ audioUrl' = None
  /\ transcription' = None
  /\ voiceId' = None
  /\ selection' = None
  /\ error' = None
  /\ hist' = NoHist
  /\ count' = [count EXCEPT !.ver = @ + 1]
  /\ lineage' = NoLineage
  /\ UNCHANGED <<pool, editor, gen, uploads, calls, net, serverVars>>

\* the transcript and the waveform are shown with the audio, under the
\* overlay while a mutation is pending
EditorUsable == audioUrl # None /\ transcription # None /\ ~IsProcessing

\* the tokens rendered with mouse handlers: every token but the spacing ones
Clickable(ws) == { i \in 0..(Len(ws) - 1) : ws[i + 1].type # "spacing" }

\* the transcript editor commits a range (mouse up, Shift+arrow, Enter) or
\* clears the selection (Escape, "Clear Selection"); handleSelectionChange
\* stores what it is handed; a range without a word hands over nothing
HandleSelectionChange ==
  /\ EditorUsable
  /\ count.edits < MaxEdits /\ count.uploads + count.edits < MaxOps
  /\ LET ws == transcription[1].words
     IN  \/ \E start \in Clickable(ws) : \E end \in Clickable(ws) :
              /\ start <= end
              /\ selection' = IF CommitSelection(ws, start, end) = None
                              THEN selection
                              ELSE CommitSelection(ws, start, end)
         \/ selection' = None
  /\ hist' = [NoHist EXCEPT !.applied = hist.applied]
  /\ UNCHANGED <<sideVars, audioFile, audioUrl, transcription, voiceId, error, mutation, uploads,
                 calls, liveUrls, count, net, serverVars>>

\* a region dragged on the waveform, inside the audio shown; handleRegionSelect
\* sets a selection when its scan finds one and leaves it alone otherwise
HandleRegionSelect ==
  /\ EditorUsable /\ audioFile # None
  /\ count.edits < MaxEdits /\ count.uploads + count.edits < MaxOps
  /\ \E start \in 0..MaxTime : \E end \in start..MaxTime :
       /\ RLe(R(end), audioFile[1].dur)
       /\ LET picked == RegionSelection(transcription[1].words, R(start), R(end))
          IN  selection' = IF picked = None THEN selection ELSE picked
  /\ hist' = [NoHist EXCEPT !.applied = hist.applied]
  /\ UNCHANGED <<sideVars, audioFile, audioUrl, transcription, voiceId, error, mutation, uploads,
                 calls, liveUrls, count, net, serverVars>>

\* handleReplace up to the synthesis request; the form submits only with a
\* selection and while nothing is pending
HandleReplace ==
  /\ audioUrl # None /\ ~IsProcessing
  /\ selection # None /\ voiceId # None /\ audioFile # None /\ transcription # None
  /\ count.edits < MaxEdits /\ count.uploads + count.edits < MaxOps
  /\ \E newText \in NewTexts :
       calls' = calls \cup
                  {[id |-> count.edits + 1, pc |-> "synthesize", newText |-> newText,
                    selection |-> selection[1], voiceId |-> voiceId[1],
                    audioFile |-> audioFile[1], audioUrl |-> audioUrl,
                    transcription |-> transcription[1], synth |-> None,
                    result |-> None, ver |-> count.ver,
                    lineage |-> lineage]}
  /\ mutation' = [mutation EXCEPT !.replace = Some(count.edits + 1)]
  /\ count' = [count EXCEPT !.edits = @ + 1]
  /\ error' = None
  /\ UNCHANGED <<sideVars, audioFile, audioUrl, transcription, voiceId, selection, uploads, liveUrls,
                 hist, net, serverVars>>

\* the original is sent as the replacement
SpliceRequestBug(c, synthResult) ==
  [caller |-> "page", original |-> Some(c.audioFile), replacement |-> Some(c.audioFile),
   startTime |-> c.selection.startTime, endTime |-> c.selection.endTime]
\* splice.mutateAsync({originalAudio, replacementAudioBase64: synthResult.audio,
\* startTime, endTime})
SpliceRequest(c, synthResult) ==
  [caller |-> "page", original |-> Some(c.audioFile), replacement |-> Some(synthResult),
   startTime |-> c.selection.startTime, endTime |-> c.selection.endTime]

\* useReplaceAudio: synthesis succeeded, the splice request is sent
SynthesizeResolve ==
  \E c \in calls :
    /\ c.pc = "synthesize"
    /\ net.req = None /\ net.resp = None
    /\ \A d \in calls : d.pc # "splice"
    /\ \E dur \in ReplacementDurations :
         /\ net' = [req |-> Some(SpliceRequest(c, Audio(dur))), resp |-> None]
         /\ calls' = (calls \ {c}) \cup {[c EXCEPT !.pc = "splice", !.synth = Some(Audio(dur))]}
    /\ UNCHANGED <<sideVars, audioFile, audioUrl, transcription, voiceId, selection, error,
                   mutation, uploads, liveUrls, hist, count, serverVars>>

\* what handleReplace had captured when it was called
Captured(c) ==
  [transcription |-> c.transcription, selection |-> c.selection, newText |-> c.newText,
   audioFile |-> c.audioFile, audioUrl |-> c.audioUrl, ver |-> c.ver]

\* the edit fails: the catch block leaves the state alone; the message shows
\* if the mutation failed and its observer is still attached to it
EditFailedBug(c, message) ==
  /\ calls' = calls \ {c}
  /\ mutation' = Settle(mutation, "replace", c.id)
  /\ error' = IF message # None /\ mutation.replace = Some(c.id) THEN message ELSE error
  /\ hist' = [hist EXCEPT !.outcome = "failed", !.old = Some(Captured(c))]
  /\ transcription' = None
  /\ UNCHANGED <<sideVars, audioFile, audioUrl, voiceId, selection, uploads, liveUrls, count,
                 serverVars>>
EditFailed(c, message) ==
  /\ calls' = calls \ {c}
  /\ mutation' = Settle(mutation, "replace", c.id)
  /\ error' = IF message # None /\ mutation.replace = Some(c.id) THEN message ELSE error
  /\ hist' = [hist EXCEPT !.outcome = "failed", !.old = Some(Captured(c))]
  /\ UNCHANGED <<sideVars, audioFile, audioUrl, transcription, voiceId, selection, uploads, liveUrls,
                 count, serverVars>>

SynthesizeReject ==
  \E c \in calls :
    /\ c.pc = "synthesize"
    /\ EditFailed(c, Some("Synthesis failed"))
    /\ UNCHANGED net

SpliceReject ==
  \E c \in calls :
    /\ c.pc = "splice"
    /\ net.resp # None
    /\ net.resp[1].caller = "page"
    /\ net.resp[1].status # 200
    /\ EditFailed(c, Some(net.resp[1].error))
    /\ net' = [net EXCEPT !.resp = None]

\* the mutation resolves with the spliced audio: nothing is pending any more
\* while handleReplace decodes it
SpliceResolve ==
  \E c \in calls :
    /\ c.pc = "splice"
    /\ net.resp # None
    /\ net.resp[1].caller = "page"
    /\ net.resp[1].status = 200
    /\ calls' = (calls \ {c}) \cup {[c EXCEPT !.pc = "decode", !.result = net.resp[1].audio]}
    /\ mutation' = Settle(mutation, "replace", c.id)
    /\ net' = [net EXCEPT !.resp = None]
    /\ UNCHANGED <<sideVars, audioFile, audioUrl, transcription, voiceId, selection, error, uploads,
                   liveUrls, hist, count, serverVars>>

\* decoding the base64 result into a Blob fails: the mutation had succeeded,
\* so no error is recorded
DecodeReject ==
  \E c \in calls :
    /\ c.pc = "decode"
    /\ EditFailed(c, None)
    /\ UNCHANGED net

\* the rest of handleReplace, with the values it captured: new File and URL,
\* reconciled transcript, selection cleared
DecodeResolve ==
  \E c \in calls :
    /\ c.pc = "decode"
    /\ liveUrls' = (liveUrls \ (IF c.audioUrl # None THEN {c.audioUrl[1]} ELSE {}))
                     \cup {count.urls + 1}
    /\ audioFile' = c.result
    /\ audioUrl' = Some(count.urls + 1)
    /\ transcription' = Some(Reconcile(c.transcription, c.selection, c.newText))
    /\ hist' = [outcome |-> "applied", applied |-> hist.applied + 1,
                old |-> Some(Captured(c))]
    /\ count' = [count EXCEPT !.urls = @ + 1, !.ver = @ + 1]
    /\ selection' = None
    /\ calls' = calls \ {c}
    /\ lineage' = [audio |-> Edited(c.lineage.audio, c.id),
                   text |-> Edited(c.lineage.text, c.id)]
    /\ UNCHANGED <<pool, editor, gen, voiceId, error, mutation, uploads, net, serverVars>>

\* ------------------------------------------------ other clients of /api/splice
DirectTimes == { R(t) : t \in 0..MaxTime } \cup { NaN }

DirectRequest ==
  /\ net.req = None /\ net.resp = None
  /\ routePc = "idle"
  /\ count.directs < MaxDirect
  /\ \E original \in {None, Some(Audio(R(MaxTime)))} :
     \E replacement \in {None, Some(Audio(R(1)))} :
     \E startTime \in DirectTimes : \E endTime \in DirectTimes :
       net' = [req |-> Some([caller |-> "direct", original |-> original,
                             replacement |-> replacement,
                             startTime |-> startTime, endTime |-> endTime]),
               resp |-> None]
  /\ count' = [count EXCEPT !.directs = @ + 1]
  /\ UNCHANGED <<sideVars, pageVars, serverVars>>

DirectResponse ==
  /\ net.resp # None
  /\ net.resp[1].caller = "direct"
  /\ net' = [net EXCEPT !.resp = None]
  /\ UNCHANGED <<sideVars, pageVars, count, serverVars>>

\* ------------------------------------------------------------------ spec
\* the splice endpoint and spliceAudio, once a well-formed request is in
Server ==
  \/ RouteAccept
  \/ GetAudioDurationResolve
  \/ GetAudioDurationReject
  \/ \E t \in TaskNames : TaskEnd(t)
  \/ \E t \in TaskNames : TaskError(t)
  \/ PromiseAllResolve
  \/ PromiseAllReject
  \/ ConcatenateAudio
  \/ \E removed \in BOOLEAN : Finally(removed)
  \/ RouteRespond
  \/ RouteCatch
  \/ \E removed \in BOOLEAN : RouteRm(removed)

\* the page and the endpoint it calls; the page sends well-formed requests only
Next ==
  \/ HandleFileSelect
  \/ TranscribeResolve
  \/ TranscribeReject
  \/ CloneResolve
  \/ CloneReject
  \/ HandleReset
  \/ HandleSelectionChange
  \/ HandleRegionSelect
  \/ HandleReplace
  \/ SynthesizeResolve
  \/ SynthesizeReject
  \/ SpliceResolve
  \/ SpliceReject
  \/ DecodeResolve
  \/ DecodeReject
  \/ PostSplice

Spec == Init /\ [][Next]_vars

\* the server under arbitrary clients of /api/splice
NextDirect ==
  \/ DirectRequest
  \/ DirectResponse
  \/ RouteReject
  \/ Server

SpecDirect == Init /\ [][NextDirect]_vars

\* ------------------------------------------- reconciliation on any transcript
\* the transcribe route passes the service's tokens through unchecked: any
\* tokens with times on the grid, start <= end, sorted by start and with
\* word tokens that do not overlap
GridTokens ==
  { [text |-> s.text, start |-> R(a), end |-> R(b), type |-> s.type] :
      s \in TokenShapes, a \in 0..MaxTick, b \in 0..MaxTick }

SortedByStart(ws) ==
  \A i \in 1..Len(ws) : \A j \in (i + 1)..Len(ws) : RLe(ws[i].start, ws[j].start)

WordsDisjoint(ws) ==
  \A i \in 1..Len(ws) : \A j \in (i + 1)..Len(ws) :
    (IsWord(ws[i]) /\ IsWord(ws[j])) => RLe(ws[i].end, ws[j].start)

NoNegativeDuration(ws) == \A i \in 1..Len(ws) : ~RLt(ws[i].end, ws[i].start)

TranscriptInvariants(ws) ==
  SortedByStart(ws) /\ WordsDisjoint(ws) /\ NoNegativeDuration(ws)

OrderedWords ==
  { ws \in UNION { [1..k -> GridTokens] : k \in 1..MaxTokens } : TranscriptInvariants(ws) }

InitReconcile ==
  /\ \E ws \in OrderedWords : transcription = Some(TranscriptionOf(ws, << >>))
  /\ audioFile = Some(Audio(R(MaxTick)))
  /\ audioUrl = Some(1)
  /\ voiceId = Some(1)
  /\ selection = None
  /\ error = None
  /\ mutation = NoMutation
  /\ uploads = {}
  /\ calls = {}
  /\ liveUrls = {1}
  /\ hist = NoHist
  /\ count = [NoCount EXCEPT !.uploads = 1, !.urls = 1, !.clones = 1, !.ver = 2]
  /\ net = [req |-> None, resp |-> None]
  /\ routePc = "idle"
  /\ sp = SpIdle
  /\ dirs = {}
  /\ files = NoFiles
  /\ pool = NoPool
  /\ lineage = NoLineage
  /\ editor = NoEditor
  /\ gen = NoGen

\* the transcript update of handleReplace, applied to the stored selection
ReconcileTranscript ==
  /\ selection # None /\ transcription # None
  /\ \E newText \in NewTexts :
       /\ transcription' = Some(Reconcile(transcription[1], selection[1], newText))
       /\ hist' = [outcome |-> "applied", applied |-> hist.applied + 1,
                   old |-> Some([transcription |-> transcription[1],
                                 selection |-> selection[1], newText |-> newText,
                                 audioFile |-> audioFile[1], audioUrl |-> audioUrl,
                                 ver |-> count.ver])]
  /\ count' = [count EXCEPT !.edits = @ + 1, !.ver = @ + 1]
  /\ selection' = None
  /\ UNCHANGED <<sideVars, audioFile, audioUrl, voiceId, error, mutation, uploads, calls, liveUrls,
                 net, serverVars>>

NextReconcile ==
  \/ HandleSelectionChange
  \/ ReconcileTranscript

SpecReconcile == InitReconcile /\ [][NextReconcile]_vars

\* ------------------------------------------------ the transcript editor's events
\* wordIndices: the indexes of the word tokens, in order
WordIndices(ws) ==
  LET idx == [i \in 1..Len(ws) |-> i - 1]
      IsWordAt(i) == ws[i + 1].type = "word"
  IN  SelectSeq(idx, IsWordAt)

\* wordIndices.indexOf(focusedIndex), -1 when there is no focus or no match
IndexOfFocus(ws, focus) ==
  LET wi == WordIndices(ws)
      hits == { k \in 1..Len(wi) : focus # None /\ wi[k] = focus[1] }
  IN  IF hits = {} THEN -1 ELSE (CHOOSE k \in hits : TRUE) - 1

Min2(a, b) == IF a < b THEN a ELSE b
Max2(a, b) == IF a < b THEN b ELSE a

\* commitSelection(start, end) as the page sees it: handleSelectionChange
\* stores the selection handed over, nothing is handed over without a word
Committed(ws, start, end) ==
  IF CommitSelection(ws, start, end) = None THEN selection
  ELSE CommitSelection(ws, start, end)

Mounted == audioUrl # None /\ transcription # None /\ count.edits < MaxEdits

EditorFrame ==
  UNCHANGED <<pool, lineage, gen, audioFile, audioUrl, transcription, voiceId, error, mutation,
              uploads, calls, liveUrls, hist, count, net, serverVars>>

\* handleWordMouseDown on a rendered token
WordMouseDown ==
  /\ Mounted
  /\ \E index \in Clickable(transcription[1].words) :
       editor' = [selectionStart |-> Some(index), selectionEnd |-> Some(index),
                  isSelecting |-> TRUE, focusedIndex |-> Some(index)]
  /\ UNCHANGED selection
  /\ EditorFrame

\* handleWordMouseEnter while dragging
WordMouseEnter ==
  /\ Mounted
  /\ editor.isSelecting /\ editor.selectionStart # None
  /\ \E index \in Clickable(transcription[1].words) :
       editor' = [editor EXCEPT !.selectionEnd = Some(index)]
  /\ UNCHANGED selection
  /\ EditorFrame

\* handleMouseUp (document listener)
MouseUp ==
  /\ Mounted
  /\ editor.isSelecting
  /\ selection' = IF editor.selectionStart # None /\ editor.selectionEnd # None
                  THEN Committed(transcription[1].words,
                                 Min2(editor.selectionStart[1], editor.selectionEnd[1]),
                                 Max2(editor.selectionStart[1], editor.selectionEnd[1]))
                  ELSE selection
  /\ editor' = [editor EXCEPT !.isSelecting = FALSE]
  /\ EditorFrame

\* what an arrow key does once the target word index is known
ArrowTo(index, shiftKey) ==
  /\ editor' = IF shiftKey /\ editor.selectionStart # None
               THEN [editor EXCEPT !.focusedIndex = Some(index), !.selectionEnd = Some(index)]
               ELSE IF shiftKey
               THEN [editor EXCEPT !.focusedIndex = Some(index),
                                   !.selectionStart = Some(index),
                                   !.selectionEnd = Some(index)]
               ELSE [editor EXCEPT !.focusedIndex = Some(index)]
  /\ selection' = IF shiftKey /\ editor.selectionStart # None
                  THEN Committed(transcription[1].words,
                                 Min2(editor.selectionStart[1], index),
                                 Max2(editor.selectionStart[1], index))
                  ELSE selection

\* handleKeyDown: ArrowRight / ArrowDown
KeyArrowRight ==
  /\ Mounted
  /\ LET wi == WordIndices(transcription[1].words)
         pos == IndexOfFocus(transcription[1].words, editor.focusedIndex)
         nextPos == IF pos < Len(wi) - 1 THEN pos + 1 ELSE pos
     IN  /\ Len(wi) # 0
         /\ \E shiftKey \in BOOLEAN :
              ArrowTo(IF nextPos >= 0 THEN wi[nextPos + 1] ELSE wi[1], shiftKey)
  /\ EditorFrame

\* handleKeyDown: ArrowLeft / ArrowUp
KeyArrowLeft ==
  /\ Mounted
  /\ LET wi == WordIndices(transcription[1].words)
         pos == IndexOfFocus(transcription[1].words, editor.focusedIndex)
         prevPos == IF pos > 0 THEN pos - 1 ELSE 0
     IN  /\ Len(wi) # 0
         /\ \E shiftKey \in BOOLEAN : ArrowTo(wi[prevPos + 1], shiftKey)
  /\ EditorFrame

\* handleKeyDown: Enter / Space
KeyEnter ==
  /\ Mounted
  /\ WordIndices(transcription[1].words) # << >>
  /\ editor.focusedIndex # None /\ editor.selectionStart = None
  /\ editor' = [editor EXCEPT !.selectionStart = editor.focusedIndex,
                              !.selectionEnd = editor.focusedIndex]
  /\ selection' = Committed(transcription[1].words, editor.focusedIndex[1],
                            editor.focusedIndex[1])
  /\ EditorFrame

\* clearSelection: Escape, or the "Clear Selection" button
ClearSelection ==
  /\ Mounted
  /\ editor' = [editor EXCEPT !.selectionStart = None, !.selectionEnd = None,
                              !.focusedIndex = None]
  /\ selection' = None
  /\ EditorFrame

\* an edit is applied under the editor: the mouse button is up by then (the
\* Replace button has been clicked), the editor's own state is not touched
EditApplied ==
  /\ ~editor.isSelecting
  /\ ReconcileTranscript

\* the editor's events and applied edits, on a loaded recording
NextEditor ==
  \/ WordMouseDown
  \/ WordMouseEnter
  \/ MouseUp
  \/ KeyArrowRight
  \/ KeyArrowLeft
  \/ KeyEnter
  \/ ClearSelection
  \/ EditApplied

SpecEditor == InitReconcile /\ [][NextEditor]_vars

\* ---------------------------------------------------------- Generate mode
\* scriptText.trim()
RECURSIVE TrimLeft(_)
TrimLeft(t) == IF t # << >> /\ Head(t) = " " THEN TrimLeft(Tail(t)) ELSE t
RECURSIVE TrimRight(_)
TrimRight(t) ==
  IF t # << >> /\ t[Len(t)] = " " THEN TrimRight(SubSeq(t, 1, Len(t) - 1)) ELSE t
Trim(t) == TrimRight(TrimLeft(t))

ScriptTexts == { << >>, <<" ">>, <<"a">>, <<"a", " ">> }

\* isProcessing: generateAudio.isPending
GenProcessing == gen.pc # "idle"

\* the form is rendered while there is no generated audio
GenForm == gen.generatedAudioUrl = None

GenFrame ==
  UNCHANGED <<pool, lineage, editor, pageVars, count, net, serverVars>>

\* handleRecordingComplete: the recorder is shown while there is no sample
HandleRecordingComplete ==
  /\ GenForm /\ ~gen.voiceSample /\ ~GenProcessing
  /\ gen' = [gen EXCEPT !.voiceSample = TRUE]
  /\ GenFrame

\* the "remove sample" button: setVoiceSample(null), disabled while processing
RemoveSample ==
  /\ GenForm /\ gen.voiceSample /\ ~GenProcessing
  /\ gen' = [gen EXCEPT !.voiceSample = FALSE]
  /\ GenFrame

\* the script textarea: setScriptText, disabled while processing
SetScriptText ==
  /\ GenForm /\ gen.voiceSample /\ ~GenProcessing
  /\ \E t \in ScriptTexts : t # gen.scriptText /\ gen' = [gen EXCEPT !.scriptText = t]
  /\ GenFrame

\* handleGenerate up to the clone request of useGenerateAudio
HandleGenerate ==
  /\ GenForm /\ ~GenProcessing
  /\ gen.voiceSample /\ Trim(gen.scriptText) # << >>
  /\ gen.made < MaxVoices
  /\ gen' = [gen EXCEPT !.pc = "clone", !.error = FALSE, !.cloned = None]
  /\ GenFrame

\* cloneVoice.mutateAsync resolves: the service has created a voice
GenCloneResolve ==
  /\ gen.pc = "clone"
  /\ gen' = [gen EXCEPT !.pc = "synthesize", !.cloned = Some(gen.made + 1),
                        !.voices = @ \cup {gen.made + 1}, !.made = @ + 1]
  /\ GenFrame

\* cloneVoice.mutateAsync rejects: the mutation fails, handleGenerate's catch
GenCloneReject ==
  /\ gen.pc = "clone"
  /\ gen' = [gen EXCEPT !.pc = "idle", !.error = TRUE]
  /\ GenFrame

\* synthesize resolves: setVoiceId(result.voiceId), setGeneratedAudioUrl(url)
GenSynthesizeResolve ==
  /\ gen.pc = "synthesize"
  /\ gen' = [gen EXCEPT !.pc = "idle", !.voiceId = gen.cloned, !.cloned = None,
                        !.generatedAudioUrl = Some(gen.made)]
  /\ GenFrame

\* synthesize rejects: the mutation fails, cloneResult goes out of scope
GenSynthesizeReject ==
  /\ gen.pc = "synthesize"
  /\ gen' = [gen EXCEPT !.pc = "idle", !.error = TRUE, !.cloned = None]
  /\ GenFrame

\* handleReset of GenerateMode ("Start Over", shown with the generated audio):
\* the voice in voiceId is deleted, the state cleared
GenHandleReset ==
  /\ ~GenForm
  /\ gen' = [gen EXCEPT !.voices = IF gen.voiceId # None THEN @ \ {gen.voiceId[1]} ELSE @,
                        !.voiceSample = FALSE, !.scriptText = << >>,
                        !.generatedAudioUrl = None, !.voiceId = None, !.error = FALSE]
  /\ GenFrame

NextGenerate ==
  \/ HandleRecordingComplete
  \/ RemoveSample
  \/ SetScriptText
  \/ HandleGenerate
  \/ GenCloneResolve
  \/ GenCloneReject
  \/ GenSynthesizeResolve
  \/ GenSynthesizeReject
  \/ GenHandleReset

SpecGenerate == Init /\ [][NextGenerate]_vars

\* --------------------------------------- the endpoint under concurrent requests
\* Each request runs POST and spliceAudio with its own locals; the requests
\* interleave at every await.  `pool.disk` holds the paths <<directory, file
\* name>> that exist, `pool.last` the file accesses of the last step, each
\* with the invocation that made it.

\* a directory name that is always the same
MkdtempBug(made, prefix) == <<prefix, 0>>
\* fs.mkdtemp(path.join(os.tmpdir(), prefix)): a new directory whose name no
\* earlier call returned
Mkdtemp(made, prefix) == <<prefix, made + 1>>

Access(j, op, dir) == [job |-> j, op |-> op, dir |-> dir]

TaskFile(t) ==
  CASE t = "before" -> "before.mp3"
    [] t = "after" -> "after.mp3"
    [] OTHER -> "replacement_normalized.mp3"

\* fs.rm(dir, {recursive: true, force: true})
RmDir(disk, dir) == { f \in disk : f[1] # dir }

\* POST up to the call of spliceAudio: mkdtemp("splice-op-"), original.mp3 and
\* replacement.mp3 written
PoolAccept(j) ==
  /\ pool.jobs[j].pc = "idle"
  /\ LET tempDir == Mkdtemp(pool.made, "splice-op-")
     IN  pool' = [pool EXCEPT
                    !.jobs[j].pc = "mkdtemp",
                    !.jobs[j].routeDir = Some(tempDir),
                    !.made = @ + 1,
                    !.ever = @ \cup {tempDir},
                    !.dirs = @ \cup {tempDir},
                    !.disk = @ \cup {<<tempDir, "original.mp3">>,
                                     <<tempDir, "replacement.mp3">>},
                    !.last = {Access(j, "write", tempDir)}]
  /\ UNCHANGED <<lineage, editor, gen, pageVars, count, net, serverVars>>

\* spliceAudio: mkdtemp("splice-") before the try block
PoolMkdtemp(j) ==
  /\ pool.jobs[j].pc = "mkdtemp"
  /\ LET tempDir == Mkdtemp(pool.made, "splice-")
     IN  pool' = [pool EXCEPT
                    !.jobs[j].pc = "probe",
                    !.jobs[j].tempDir = Some(tempDir),
                    !.made = @ + 1,
                    !.ever = @ \cup {tempDir},
                    !.dirs = @ \cup {tempDir},
                    !.last = {}]
  /\ UNCHANGED <<lineage, editor, gen, pageVars, count, net, serverVars>>

\* getAudioDuration(originalAudioPath), then the tasks are pushed; or the
\* probe rejects
PoolProbe(j) ==
  /\ pool.jobs[j].pc = "probe"
  /\ \/ \E before \in BOOLEAN : \E after \in BOOLEAN :
          pool' = [pool EXCEPT
                     !.jobs[j].pc = "await",
                     !.jobs[j].tasks =
                        [t \in TaskNames |->
                           IF (t = "before" /\ ~before) \/ (t = "after" /\ ~after)
                           THEN "none" ELSE "running"],
                     !.last = {Access(j, "read", pool.jobs[j].routeDir[1])}]
     \/ pool' = [pool EXCEPT !.jobs[j].pc = "finally", !.jobs[j].failed = TRUE,
                              !.last = {Access(j, "read", pool.jobs[j].routeDir[1])}]
  /\ UNCHANGED <<lineage, editor, gen, pageVars, count, net, serverVars>>

\* an ffmpeg run of extractSegment / normalizeAudio ends: it has read its
\* input and written its output, if the directory of the output is there
PoolTaskEnd(j, t) ==
  /\ pool.jobs[j].tasks[t] = "running"
  /\ LET job == pool.jobs[j]
         out == <<job.tempDir[1], TaskFile(t)>>
     IN  pool' = [pool EXCEPT
                    !.jobs[j].tasks[t] = IF job.tempDir[1] \in pool.dirs THEN "ok" ELSE "failed",
                    !.disk = IF job.tempDir[1] \in pool.dirs THEN @ \cup {out} ELSE @,
                    !.last = {Access(j, "read", job.routeDir[1]),
                              Access(j, "write", job.tempDir[1])}]
  /\ UNCHANGED <<lineage, editor, gen, pageVars, count, net, serverVars>>

PoolTaskError(j, t) ==
  /\ pool.jobs[j].tasks[t] = "running"
  /\ pool' = [pool EXCEPT !.jobs[j].tasks[t] = "failed", !.last = {}]
  /\ UNCHANGED <<lineage, editor, gen, pageVars, count, net, serverVars>>

\* await Promise.all(promises): resolved, list.txt is written; rejected, the
\* finally block is next whatever the other tasks do
PoolAwait(j) ==
  /\ pool.jobs[j].pc = "await"
  /\ LET job == pool.jobs[j]
     IN  \/ /\ \A t \in TaskNames : job.tasks[t] \in {"none", "ok"}
            /\ pool' = [pool EXCEPT !.jobs[j].pc = "concat",
                                     !.disk = @ \cup {<<job.tempDir[1], "list.txt">>},
                                     !.last = {Access(j, "write", job.tempDir[1])}]
         \/ /\ \E t \in TaskNames : job.tasks[t] = "failed"
            /\ pool' = [pool EXCEPT !.jobs[j].pc = "finally", !.jobs[j].failed = TRUE,
                                     !.last = {}]
  /\ UNCHANGED <<lineage, editor, gen, pageVars, count, net, serverVars>>

\* concatenateAudio(listPath, outputPath): reads the list and the listed
\* files, writes output.mp3 next to the request's input files; or fails
PoolConcat(j) ==
  /\ pool.jobs[j].pc = "concat"
  /\ LET job == pool.jobs[j]
     IN  \/ pool' = [pool EXCEPT !.jobs[j].pc = "finally",
                                  !.disk = @ \cup {<<job.routeDir[1], "output.mp3">>},
                                  !.last = {Access(j, "read", job.tempDir[1]),
                                            Access(j, "write", job.routeDir[1])}]
         \/ pool' = [pool EXCEPT !.jobs[j].pc = "finally", !.jobs[j].failed = TRUE,
                                  !.last = {Access(j, "read", job.tempDir[1])}]
  /\ UNCHANGED <<lineage, editor, gen, pageVars, count, net, serverVars>>

\* finally: fs.rm(tempDir, ...), whose failure is swallowed
PoolFinally(j) ==
  /\ pool.jobs[j].pc = "finally"
  /\ LET job == pool.jobs[j]
     IN  \E removed \in BOOLEAN :
           pool' = [pool EXCEPT !.jobs[j].pc = "returned",
                                !.dirs = IF removed THEN @ \ {job.tempDir[1]} ELSE @,
                                !.disk = IF removed THEN RmDir(@, job.tempDir[1]) ELSE @,
                                !.last = {Access(j, "rm", job.tempDir[1])}]
  /\ UNCHANGED <<lineage, editor, gen, pageVars, count, net, serverVars>>

\* POST after spliceAudio: output.mp3 is read and the request's directory
\* removed; after a rejection the catch block only answers
PoolRespond(j) ==
  /\ pool.jobs[j].pc = "returned"
  /\ LET job == pool.jobs[j]
     IN  IF job.failed
         THEN pool' = [pool EXCEPT !.jobs[j].pc = "answered", !.last = {}]
         ELSE pool' = [pool EXCEPT !.jobs[j].pc = "answered",
                                   !.dirs = @ \ {job.routeDir[1]},
                                   !.disk = RmDir(@, job.routeDir[1]),
                                   !.last = {Access(j, "read", job.routeDir[1]),
                                             Access(j, "rm", job.routeDir[1])}]
  /\ UNCHANGED <<lineage, editor, gen, pageVars, count, net, serverVars>>

NextPool ==
  \E j \in 1..MaxJobs :
    \/ PoolAccept(j)
    \/ PoolMkdtemp(j)
    \/ PoolProbe(j)
    \/ \E t \in TaskNames : PoolTaskEnd(j, t)
    \/ \E t \in TaskNames : PoolTaskError(j, t)
    \/ PoolAwait(j)
    \/ PoolConcat(j)
    \/ PoolFinally(j)
    \/ PoolRespond(j)

SpecPool == Init /\ [][NextPool]_vars

\* every answer of the endpoint's steps is one of SpliceAnswers
AnswersAgree ==
  [][(net'.resp # net.resp /\ net'.resp # None /\ sp.params # None) =>
       net'.resp[1] \in SpliceAnswers([caller |-> sp.params[1].caller,
                                       original |-> files[sp.params[1].originalAudioPath],
                                       replacement |-> files[sp.params[1].replacementAudioPath],
                                       startTime |-> sp.params[1].startTime,
                                       endTime |-> sp.params[1].endTime])]_vars

\* ---------------------------------------------------------------- claims
Params == sp.params[1]
ListPath == InDir(sp.tempDir[1], "list.txt")
OriginalFile == files[Params.originalAudioPath][1]
ReplacementFile == files[Params.replacementAudioPath][1]

\* the segments the claim expects for a cut window and a probed duration
ExpectedSegments(original, replacement, startTime, endTime, duration) ==
  (IF RGt(startTime, R(0))
   THEN << [kind |-> "cut", src |-> original, from |-> R(0), len |-> startTime,
            format |-> Canonical] >>
   ELSE << >>)
  \o << [kind |-> "norm", src |-> replacement, format |-> Canonical] >>
  \o (IF RLt(endTime, duration)
      THEN << [kind |-> "cut", src |-> original, from |-> endTime,
               len |-> RSub(duration, endTime), format |-> Canonical] >>
      ELSE << >>)

\* C1: whenever a concat list has been written and concatenation is about
\* to run, the files it names exist and their contents are, in order,
\* original[0, startTime) if and only if startTime > 0, the normalized
\* replacement exactly once, and original[endTime, D) if and only if
\* endTime < D, for the probed duration D.
C1_SegmentsInOrder ==
  sp.pc = "concat" =>
    /\ Exists(files, ListPath)
    /\ \A i \in 1..Len(ListedFiles(files, ListPath)) :
         Exists(files, ListedFiles(files, ListPath)[i])
    /\ (\A i \in 1..Len(ListedFiles(files, ListPath)) :
          Exists(files, ListedFiles(files, ListPath)[i]))
         => ConcatInput(files, ListPath)
              = ExpectedSegments(OriginalFile, ReplacementFile, Params.startTime,
                                 Params.endTime, sp.duration[1])

\* a splice with both a 'before' and an 'after' segment reaches concatenation
C1_Witness ==
  /\ sp.pc = "concat"
  /\ Len(sp.files) = 3
  /\ RLt(Params.startTime, Params.endTime)

\* the message of the step that failed first
FailureMessage ==
  IF sp.probe = "err" THEN "ffprobe"
  ELSE IF sp.firstErr # None THEN sp.firstErr[1]
  ELSE IF sp.concat = "failed" THEN "concat"
  ELSE "writeFile"

StepFailed ==
  \/ sp.probe = "err"
  \/ \E t \in TaskNames : sp.tasks[t] = "failed"
  \/ sp.concat = "failed"

C2_State ==
  /\ (sp.pc = "concat" \/ sp.concat # "none") =>
       /\ sp.probe # "err"
       /\ \A t \in TaskNames : sp.tasks[t] \in {"none", "ok"}
  /\ (sp.pc \in {"finally", "returned"} /\ StepFailed) =>
       /\ sp.result = Some([ok |-> FALSE, value |-> FailureMessage])
       /\ (sp.firstErr # None => sp.tasks[sp.firstErr[1]] = "failed")
       /\ ~Exists(files, Params.outputPath)

C2_Step ==
  (sp.pc = "returned" /\ StepFailed /\ net'.resp # net.resp) =>
    /\ net'.resp # None
    /\ net'.resp[1].status = 500
    /\ net'.resp[1].audio = None
    /\ net'.resp[1].error = FailureMessage

\* C2: concatenation is never started once the probe or a task has failed;
\* when the probe, a task or the concatenation has failed, spliceAudio ends
\* with one rejection carrying the message of the step that failed first
\* and no output file; and the endpoint then answers 500 with that message
\* and no audio.
C2_FailureAborts == [](C2_State) /\ [][C2_Step]_vars

\* an extraction failed while the normalization succeeded, and the call
\* has rejected
C2_Witness ==
  /\ sp.pc = "returned"
  /\ sp.tasks["before"] = "failed"
  /\ sp.tasks["replacement"] = "ok"
  /\ ~sp.result[1].ok

\* C3: when spliceAudio has returned, on whatever path, the removal of its
\* temporary directory has run; if the removal succeeded the directory and
\* its files are gone; and whether or not it succeeded, the result is the
\* one the try block produced: the output path exactly when the
\* concatenation succeeded, the primary error otherwise.
C3_CleanupOnEveryPath ==
  sp.pc = "returned" =>
    /\ sp.cleanup \in {"removed", "failed"}
    /\ sp.cleanup = "removed" =>
         /\ sp.tempDir[1] \notin dirs
         /\ \A p \in AllPaths : p[1] = sp.tempDir[1][1] => ~Exists(files, p)
    /\ sp.result[1].ok <=> sp.concat = "ok"
    /\ ~sp.result[1].ok => sp.result[1].value = FailureMessage

\* the call failed, the removal failed too, and the primary error stands
C3_Witness ==
  /\ sp.pc = "returned"
  /\ sp.cleanup = "failed"
  /\ sp.result = Some([ok |-> FALSE, value |-> "after"])

\* C4: once a splice request that failed in an extraction (and in nothing
\* else: the removals it attempted succeeded) has been answered, neither
\* spliceAudio's directory nor the endpoint's directory exists.
C4_NoResidualDirs ==
  (net.resp # None /\ net.resp[1].status = 500
     /\ net.resp[1].error \in {"before", "after"}
     /\ sp.cleanup = "removed") =>
    /\ SpliceDir \notin dirs
    /\ RouteDir \notin dirs

Old == hist.old[1]
OldWords == Old.transcription.words
NewWords == transcription[1].words
Removed == Old.selection.endIndex - Old.selection.startIndex + 1

\* C5: when an edit has failed (in synthesis, in the splice or in decoding
\* the result) and no other handler has changed the page's audio or
\* transcript since handleReplace was called, the audio file, audio URL and
\* transcript are the ones handleReplace had captured and the URL is still
\* live; and the step in which an edit fails changes none of them.
C5_State ==
  (hist.outcome = "failed" /\ Old.ver = count.ver) =>
    /\ audioFile = Some(Old.audioFile)
    /\ audioUrl = Old.audioUrl
    /\ transcription = Some(Old.transcription)
    /\ audioUrl[1] \in liveUrls

C5_Step ==
  (calls' # calls /\ hist'.outcome = "failed") =>
    /\ audioFile' = audioFile
    /\ audioUrl' = audioUrl
    /\ transcription' = transcription
    /\ liveUrls' = liveUrls

C5_FailedEditKeepsState == [](C5_State) /\ [][C5_Step]_vars

\* an edit failed in the splice, after an earlier edit had been applied
C5_Witness ==
  /\ hist.outcome = "failed"
  /\ hist.applied = 1
  /\ Old.ver = count.ver
  /\ error = Some("replacement")

\* C6: a request with startTime > endTime starts no probe, extraction,
\* normalization or concatenation.
C6_InvalidRangeRejected ==
  (sp.params # None /\ RGt(Params.startTime, Params.endTime)) =>
    /\ sp.pc = "idle"
    /\ sp.probe = "none"
    /\ \A t \in TaskNames : sp.tasks[t] = "none"
    /\ sp.concat = "none"

\* C7: when the probe errors or reports no duration, the splice fails: no
\* duration is substituted, no task is started and no output is produced.
C7_ProbeFailureIsFatal ==
  sp.probe \in {"err", "noduration"} =>
    /\ sp.duration = None
    /\ sp.pc \in {"finally", "returned"}
    /\ ~sp.result[1].ok
    /\ \A t \in TaskNames : sp.tasks[t] = "none"

\* C8: after an edit of the index range [startIndex, endIndex], with
\* 0 <= startIndex <= endIndex < len(old tokens), the new transcript has
\* len(old tokens) - (endIndex - startIndex + 1) + 1 tokens.
C8_TokenCount ==
  (hist.outcome = "applied"
     /\ 0 <= Old.selection.startIndex
     /\ Old.selection.startIndex <= Old.selection.endIndex
     /\ Old.selection.endIndex < Len(OldWords)) =>
    Len(NewWords) = Len(OldWords) - Removed + 1

\* an edit collapsed two tokens into one
C8_Witness ==
  /\ hist.outcome = "applied"
  /\ Old.selection.endIndex < Len(OldWords)
  /\ Removed = 2
  /\ Len(NewWords) = 1

\* the shift the claim names: estimatedDuration - originalSpanDuration, with
\* estimatedDuration = originalSpanDuration * len(newText) / len(selectedText)
ClaimedOffset ==
  LET span == RSub(Old.selection.endTime, Old.selection.startTime)
      est == RMulFrac(span, Len(Old.newText), Len(Old.selection.selectedText))
  IN  RSub(est, span)

C10_TextIsJoin ==
  (transcription # None /\ hist.applied >= 1) =>
    transcription[1].text = Join(transcription[1].words)

\* a second edit has been applied, to a transcript of two tokens
C10_Witness ==
  /\ hist.applied = 2
  /\ hist.outcome = "applied"
  /\ Len(NewWords) >= 2

\* C11: when the transcript an edit was applied to had its tokens sorted by
\* start, its word tokens non-overlapping and start <= end for every token,
\* the transcript the edit produced has the same three properties.
C11_InvariantsPreserved ==
  (hist.outcome = "applied" /\ TranscriptInvariants(OldWords)) =>
    TranscriptInvariants(NewWords)

\* the worked example: "Hello", a spacing token, "world" from 0.5 to 1.0,
\* and the same transcript followed by one more token
ExampleWords ==
  << [text |-> <<"H", "e", "l", "l", "o">>, start |-> R(0), end |-> Norm(1, 2), type |-> "word"],
     [text |-> <<" ">>, start |-> Norm(1, 2), end |-> Norm(1, 2), type |-> "spacing"],
     [text |-> <<"w", "o", "r", "l", "d">>, start |-> Norm(1, 2), end |-> R(1), type |-> "word"] >>
ExampleTail == << [text |-> <<"!">>, start |-> R(1), end |-> R(1), type |-> "punctuation"] >>
There == <<"t", "h", "e", "r", "e">>
Everyone == <<"e", "v", "e", "r", "y", "o", "n", "e">>
ExampleEdit(ws, newText) ==
  Reconcile(TranscriptionOf(ws, << >>), CommitSelection(ws, 2, 2)[1], newText)

C12_Examples ==
  /\ ExampleEdit(ExampleWords, There).words
       = << ExampleWords[1], ExampleWords[2],
            [text |-> There, start |-> Norm(1, 2), end |-> R(1), type |-> "word"] >>
  /\ TimeOffset(CommitSelection(ExampleWords, 2, 2)[1], There) = R(0)
  /\ ExampleEdit(ExampleWords, There).text = ExampleWords[1].text \o <<" ">> \o There
  /\ EstimatedDuration(CommitSelection(ExampleWords, 2, 2)[1], Everyone) = Norm(4, 5)
  /\ ExampleEdit(ExampleWords, Everyone).words[3]
       = [text |-> Everyone, start |-> Norm(1, 2), end |-> Norm(13, 10), type |-> "word"]
  /\ ExampleEdit(ExampleWords \o ExampleTail, Everyone).words[4]
       = [text |-> <<"!">>, start |-> Norm(13, 10), end |-> Norm(13, 10),
          type |-> "punctuation"]

\* C12: an edit puts, at the position of the selected index range, the one
\* token {newText, selection startTime, startTime + estimatedDuration, word}
\* with estimatedDuration = span * len(newText) / len(selectedText); the
\* tokens before it are unchanged and the tokens after it are the ones that
\* followed the range; and the two worked examples ("there", "everyone")
\* give the values stated.
C12_CollapsedToken ==
  /\ hist.outcome = "applied" =>
       LET sel == Old.selection
           k == sel.startIndex + 1
           span == RSub(sel.endTime, sel.startTime)
           est == RMulFrac(span, Len(Old.newText), Len(sel.selectedText))
       IN  /\ NewWords[k] = [text |-> Old.newText, start |-> sel.startTime,
                             end |-> RAdd(sel.startTime, est), type |-> "word"]
           /\ \A i \in 1..(k - 1) : NewWords[i] = OldWords[i]
           /\ Len(NewWords) = Len(OldWords) - Removed + 1
           /\ \A i \in (k + 1)..Len(NewWords) : NewWords[i].text = OldWords[i + Removed - 1].text
  /\ C12_Examples

\* an edit collapsed a range of a word and a non-word token into one token
\* that is longer than the replaced span
C12_Witness ==
  /\ hist.outcome = "applied"
  /\ Removed = 2
  /\ \E i \in (Old.selection.startIndex + 1)..(Old.selection.endIndex + 1) :
       ~IsWord(OldWords[i])
  /\ RGt(NewWords[Old.selection.startIndex + 1].end, Old.selection.endTime)

\* C13: in a splice with startTime = 0 and endTime equal to the probed
\* duration, no 'before' and no 'after' extraction is started, neither file
\* is written, and the output, once concatenated, consists of the normalized
\* replacement alone.
C13_SpliceIdentity ==
  (sp.params # None /\ sp.duration # None
     /\ Params.startTime = R(0) /\ Params.endTime = sp.duration[1]) =>
    /\ sp.tasks["before"] = "none" /\ sp.tasks["after"] = "none"
    /\ ~Exists(files, InDir(sp.tempDir[1], "before.mp3"))
    /\ ~Exists(files, InDir(sp.tempDir[1], "after.mp3"))
    /\ sp.pc = "concat" =>
         ListedFiles(files, ListPath) = << InDir(sp.tempDir[1], "replacement_normalized.mp3") >>
    /\ sp.concat = "ok" =>
         /\ files[Params.outputPath][1].parts = << NormalizeAudio(ReplacementFile) >>
         /\ SumDur(files[Params.outputPath][1].parts) = ReplacementFile.dur

\* a splice of the whole original has produced its output
C13_Witness ==
  /\ sp.pc = "returned" /\ sp.concat = "ok" /\ sp.probe = "ok"
  /\ Params.startTime = R(0) /\ Params.endTime = OriginalFile.dur

\* C14: in a splice with startTime = endTime = t and 0 < t < duration, the
\* concatenated segments are original[0, t), the normalized replacement and
\* original[t, duration), in this order, and the output lasts as long as the
\* original and the replacement together.
C14_PureInsertion ==
  (sp.params # None /\ sp.duration # None
     /\ Params.startTime = Params.endTime
     /\ RGt(Params.startTime, R(0)) /\ RLt(Params.startTime, sp.duration[1])) =>
    /\ (sp.pc = "concat" /\ \A i \in 1..Len(ListedFiles(files, ListPath)) :
                              Exists(files, ListedFiles(files, ListPath)[i])) =>
         ConcatInput(files, ListPath)
           = << [kind |-> "cut", src |-> OriginalFile, from |-> R(0),
                 len |-> Params.startTime, format |-> Canonical],
                [kind |-> "norm", src |-> ReplacementFile, format |-> Canonical],
                [kind |-> "cut", src |-> OriginalFile, from |-> Params.startTime,
                 len |-> RSub(sp.duration[1], Params.startTime), format |-> Canonical] >>
    /\ sp.concat = "ok" =>
         /\ Len(files[Params.outputPath][1].parts) = 3
         /\ DurOfPart(files[Params.outputPath][1].parts[1]) = Params.startTime
         /\ DurOfPart(files[Params.outputPath][1].parts[3])
              = RSub(OriginalFile.dur, Params.startTime)
         /\ SumDur(files[Params.outputPath][1].parts)
              = RAdd(OriginalFile.dur, ReplacementFile.dur)

\* an insertion at t = 1 into the original has produced its output
C14_Witness ==
  /\ sp.pc = "returned" /\ sp.concat = "ok" /\ sp.probe = "ok"
  /\ Params.startTime = R(1) /\ Params.endTime = R(1)
  /\ RLt(R(1), OriginalFile.dur)

\* C15: edits are serialized: between the start of one handleReplace and the
\* moment it has applied its result or failed, no second handleReplace
\* begins, so at most one edit is in flight.
C15_OneEditInFlight == Cardinality(calls) <= 1

\* the word-kind tokens of ws inside the 0-based index range [startIndex, endIndex]
WordsInRange(ws, startIndex, endIndex) ==
  { i \in 0..(Len(ws) - 1) : startIndex <= i /\ i <= endIndex /\ ws[i + 1].type = "word" }

RECURSIVE TextOfRange(_, _, _)
\* the texts of the tokens at indexes from..to (those that exist), concatenated
TextOfRange(ws, from, to) ==
  IF from > to \/ from >= Len(ws) THEN << >>
  ELSE ws[from + 1].text \o TextOfRange(ws, from + 1, to)

WellFormed(sel, ws) ==
  LET inRange == WordsInRange(ws, sel.startIndex, sel.endIndex)
      first == CHOOSE i \in inRange : \A j \in inRange : i <= j
      last == CHOOSE i \in inRange : \A j \in inRange : j <= i
  IN  /\ sel.startIndex <= sel.endIndex
      /\ inRange # {}
      /\ sel.startTime = ws[first + 1].start
      /\ sel.endTime = ws[last + 1].end
      /\ sel.selectedText = TextOfRange(ws, sel.startIndex, sel.endIndex)

\* every index range the editor can commit on the transcript shown, the
\* anchor of an earlier transcript included, and every region of the grid
C16_Offered ==
  transcription # None =>
    LET ws == transcription[1].words
    IN  /\ \A start \in 0..MaxTokens : \A end \in start..MaxTokens :
             LET picked == CommitSelection(ws, start, end)
             IN  IF WordsInRange(ws, start, end) = {} THEN picked = None
                 ELSE picked # None /\ WellFormed(picked[1], ws)
        /\ \A start \in 0..MaxTime : \A end \in start..MaxTime :
             LET picked == RegionSelection(ws, R(start), R(end))
             IN  picked # None => WellFormed(picked[1], ws)

C16_Delivered ==
  (selection' # selection /\ selection' # None /\ transcription # None) =>
    WellFormed(selection'[1], transcription[1].words)

\* C16: every selection delivered to the page, by the transcript editor or by
\* a waveform region, has startIndex <= endIndex, has a word token in its
\* range, takes startTime from the first and endTime from the last word token
\* of the range and has the concatenated text of the range as selectedText;
\* a range without a word token delivers no selection.
C16_SelectionWellFormed == [](C16_Offered) /\ [][C16_Delivered]_vars

\* a region selection and an editor selection over several tokens, one of
\* them not a word
C16_Witness ==
  /\ selection # None /\ transcription # None
  /\ selection[1].startIndex < selection[1].endIndex
  /\ \E i \in 1..Len(transcription[1].words) : transcription[1].words[i].type # "word"
  /\ WellFormed(selection[1], transcription[1].words)

\* C17: every splice request the page issues, after any number of applied
\* edits, has 0 <= startTime <= endTime <= originalDuration, the duration of
\* the audio sent with that request.
C17_RequestInRange ==
  (net.req # None /\ net.req[1].caller = "page") =>
    LET q == net.req[1]
    IN  /\ RLe(R(0), q.startTime)
        /\ RLe(q.startTime, q.endTime)
        /\ RLe(q.endTime, q.original[1].dur)

\* a voiceId that is set changes only by being cleared (handleReset,
\* handleFileSelect), and a step that starts or continues a replacement sends
\* no clone request
C18_Step ==
  /\ (voiceId # None /\ voiceId' # voiceId) => voiceId' = None
  /\ (calls' # calls) => count'.clones = count.clones

\* C18: the voice clone is made once per uploaded file and cached: between a
\* successful upload and the next reset or file selection every replacement
\* uses the same voiceId and no further clone request is issued.
C18_VoiceCached == [][C18_Step]_vars

\* C19: every file named in the concat list (before, normalized replacement,
\* after) has been re-encoded to MP3 (libmp3lame), 44100 Hz, 128 kbps, 2
\* channels; the raw replacement file is never concatenated directly.
C19_CanonicalInputs ==
  sp.pc = "concat" =>
    \A i \in 1..Len(ListedFiles(files, ListPath)) :
      LET path == ListedFiles(files, ListPath)[i]
      IN  /\ path # Params.replacementAudioPath
          /\ path # Params.originalAudioPath
          /\ Exists(files, path)
          /\ files[path][1].kind \in {"cut", "norm"}
          /\ files[path][1].format
               = [codec |-> "libmp3lame", frequency |-> 44100, bitrate |-> 128, channels |-> 2]

\* a concat list of three files, with the raw replacement next to them on disk
C19_Witness ==
  /\ sp.pc = "concat"
  /\ Len(ListedFiles(files, ListPath)) = 3
  /\ Exists(files, Params.replacementAudioPath)
  /\ ReplacementFile.kind = "audio"

RECURSIVE EncodePasses(_)
\* the lossy encodes the material of a file went through since the request's
\* input files: one for each file on the way that was written with an
\* encoding of its own
EncodePasses(c) ==
  IF c.kind = "audio" THEN 0
  ELSE LET own == IF "format" \in DOMAIN c THEN 1 ELSE 0
           below == IF c.kind = "concat"
                    THEN { EncodePasses(c.parts[i]) : i \in 1..Len(c.parts) }
                    ELSE { EncodePasses(c.src) }
       IN  own + (CHOOSE m \in below : \A n \in below : n <= m)

\* C20: the final concatenation joins the segments without re-encoding, so
\* the audio of a splice output has been lossy-encoded exactly once (at
\* extraction or normalization) and not again at concat time.
C20_ConcatCopies ==
  (sp.params # None /\ sp.concat = "ok" /\ Exists(files, Params.outputPath)) =>
    EncodePasses(files[Params.outputPath][1]) = 1

\* the edit just applied, replayed on a heap that holds the old transcript at
\* array address 1
OldHeap == LoadWords(OldWords)
Replayed == ReconcileHeap(OldHeap, 1, Old.selection, Old.newText)

\* C21: an edit replaces the transcript and never changes it in place: the
\* new token list is a new array, the new and the shifted tokens are new
\* objects, and the old token list and each of its tokens (text, start, end,
\* kind) are the same after the edit as before.
C21_OldTranscriptIntact ==
  hist.outcome = "applied" =>
    /\ Replayed.addr # 1
    /\ ReadWords(Replayed.heap, Replayed.addr) = NewWords
    /\ Replayed.heap.arrs[1] = OldHeap.arrs[1]
    /\ \A i \in 1..Len(OldHeap.objs) : Replayed.heap.objs[i] = OldHeap.objs[i]
    /\ ReadWords(Replayed.heap, 1) = OldWords
    /\ \A k \in (Old.selection.startIndex + 1)..Len(NewWords) :
         Replayed.heap.arrs[Replayed.addr][k] > Len(OldHeap.objs)

\* an edit that removed a token and shifted a later one
C21_Witness ==
  /\ hist.outcome = "applied"
  /\ Len(OldWords) = 2 /\ Len(NewWords) = 2
  /\ Old.selection.startIndex = 0
  /\ NewWords[2].start # OldWords[2].start

\* the directories an invocation created
OwnDirs(jobs, j) ==
  (IF jobs[j].routeDir = None THEN {} ELSE {jobs[j].routeDir[1]})
    \cup (IF jobs[j].tempDir = None THEN {} ELSE {jobs[j].tempDir[1]})

C22_State ==
  /\ \A j \in 1..MaxJobs : \A k \in 1..MaxJobs :
       j # k => OwnDirs(pool.jobs, j) \cap OwnDirs(pool.jobs, k) = {}
  /\ \A a \in pool.last :
       /\ a.dir \in OwnDirs(pool.jobs, a.job)
       /\ \A k \in 1..MaxJobs : k # a.job => a.dir \notin OwnDirs(pool.jobs, k)

C22_Step ==
  /\ \A d \in pool'.dirs \ pool.dirs : d \notin pool.ever
  /\ \A f \in pool.disk \ pool'.disk :
       \E a \in pool'.last : a.op = "rm" /\ a.dir = f[1] /\ a.dir \in OwnDirs(pool'.jobs, a.job)
  /\ \A f \in pool.disk \ pool'.disk :
       \A k \in 1..MaxJobs :
         f[1] \in OwnDirs(pool'.jobs, k) => \E a \in pool'.last : a.job = k

\* C22: splice invocations that run concurrently use distinct directories,
\* each created anew; no invocation reads or writes a file in a directory of
\* another, and the cleanup of one removes no file of another.
C22_OwnDirectories == [](C22_State) /\ [][C22_Step]_vars

\* two invocations under way at once, both with files in their directories,
\* one of them having just removed its own
C22_Witness ==
  /\ pool.jobs[1].pc = "returned" /\ pool.jobs[1].tempDir[1] \notin pool.dirs
  /\ pool.jobs[2].pc = "concat"
  /\ <<pool.jobs[2].tempDir[1], "before.mp3">> \in pool.disk
  /\ <<pool.jobs[2].tempDir[1], "list.txt">> \in pool.disk
  /\ pool.jobs[1].tempDir[1][2] < pool.jobs[2].tempDir[1][2]
  /\ pool.jobs[2].routeDir[1][2] < pool.jobs[1].tempDir[1][2]

RECURSIVE RunInOrder(_, _)
\* the files after the launched tasks of the splice in progress have run one
\* after the other, in the given order, on a disk f
RunInOrder(order, f) ==
  IF order = << >> THEN f
  ELSE LET t == Head(order)
           g == IF Launched(Params, sp.duration[1])[t] = "running"
                THEN [f EXCEPT ![TaskPath(t)] = Some(TaskOutput(t))]
                ELSE f
       IN  RunInOrder(Tail(order), g)

\* the same splice run sequentially, in the order of the source
SequentialFiles ==
  RunInOrder(<< "before", "after", "replacement" >>,
             [q \in AllPaths |->
                IF q \in {Params.originalAudioPath, Params.replacementAudioPath}
                THEN files[q] ELSE None])

\* C23: the extraction and normalization tasks of one splice run concurrently
\* and write distinct files; the concat list is written, and concatenation
\* starts, only after every launched task has completed; and the list and
\* the files it names are then the same, whatever the order in which the
\* tasks completed, as after running the tasks one after the other.
C23_ParallelIsSequential ==
  (sp.params # None /\ sp.tempDir # None /\ sp.pc # "idle") =>
    /\ \A t \in TaskNames : \A u \in TaskNames : t # u => TaskPath(t) # TaskPath(u)
    /\ \A t \in TaskNames :
         TaskPath(t) \notin {Params.originalAudioPath, Params.replacementAudioPath,
                             Params.outputPath, ListPath}
    /\ (sp.pc = "concat" \/ sp.concat # "none" \/ Exists(files, ListPath)) =>
         \A t \in TaskNames :
           IF Launched(Params, sp.duration[1])[t] = "running"
           THEN sp.tasks[t] = "ok" ELSE sp.tasks[t] = "none"
    /\ sp.pc = "concat" =>
         /\ ListedFiles(files, ListPath)
              = ConcatFiles(Params, sp.duration[1], sp.tempDir[1])
         /\ \A t \in TaskNames : files[TaskPath(t)] = SequentialFiles[TaskPath(t)]
         /\ \A i \in 1..Len(ListedFiles(files, ListPath)) :
              /\ Exists(files, ListedFiles(files, ListPath)[i])
              /\ files[ListedFiles(files, ListPath)[i]]
                   = SequentialFiles[ListedFiles(files, ListPath)[i]]

\* three tasks were launched together; the one pushed last has completed
\* while the two extractions are still running
C23_Witness ==
  /\ sp.pc = "await"
  /\ sp.tasks["replacement"] = "ok"
  /\ sp.tasks["before"] = "running"
  /\ sp.tasks["after"] = "running"

\* where each invocation of handleReplace is, and what it holds there
C24_State ==
  \A c \in calls :
    /\ c.pc = "synthesize" => c.synth = None /\ c.result = None
    /\ c.pc = "splice" => c.synth # None /\ c.result = None
    /\ c.pc = "decode" => c.synth # None /\ c.result # None

C24_Step ==
  \* a splice request is sent by an invocation whose synthesis has just
  \* succeeded, and carries the synthesized audio and the captured window
  /\ (net'.req # None /\ net'.req # net.req) =>
       \E c \in calls : \E d \in calls' :
         /\ c.id = d.id /\ c.pc = "synthesize" /\ d.pc = "splice"
         /\ net'.req[1].replacement = d.synth
         /\ net'.req[1].original = Some(c.audioFile)
         /\ net'.req[1].startTime = c.selection.startTime
         /\ net'.req[1].endTime = c.selection.endTime
  \* the transcript is reconciled by an invocation that holds the result of
  \* its splice
  /\ (hist' # hist /\ hist'.outcome = "applied") =>
       \E c \in calls \ calls' :
         /\ c.pc = "decode" /\ c.result # None
         /\ audioFile' = c.result
         /\ transcription' = Some(Reconcile(c.transcription, c.selection, c.newText))
  \* an invocation that ends at its synthesis sends nothing and changes nothing
  /\ (\E c \in calls \ calls' : c.pc = "synthesize" /\ \A d \in calls' : d.id # c.id) =>
       /\ net' = net
       /\ transcription' = transcription
       /\ audioFile' = audioFile

\* C24: one edit is a strictly sequential chain: the splice request is sent
\* only after the synthesis has succeeded and carries its result, the
\* transcript is reconciled only after the splice has succeeded, and a failed
\* synthesis causes neither a splice request nor a transcript change.
C24_Sequential == [](C24_State) /\ [][C24_Step]_vars

\* an edit went through synthesis, splice and reconciliation, and a later
\* edit failed at its synthesis
C24_Witness ==
  /\ hist.outcome = "failed" /\ hist.applied = 1
  /\ error = Some("Synthesis failed")
  /\ net.req = None /\ net.resp = None
  /\ calls = {}

\* the audio and the transcript the page holds come from the same edits, in
\* the same order; a request in flight has the window of its invocation
C25_State ==
  /\ (lineage.audio # None /\ lineage.text # None) =>
       lineage.audio[1].edits = lineage.text[1].edits
  /\ \A c \in calls :
       (c.pc = "splice" /\ net.req # None) =>
         /\ net.req[1].startTime = c.selection.startTime
         /\ net.req[1].endTime = c.selection.endTime

\* the reconciler of an applied edit uses the window that was sent
C25_Step ==
  (hist' # hist /\ hist'.outcome = "applied") =>
    \E c \in calls \ calls' :
      LET k == c.selection.startIndex + 1
          span == RSub(c.selection.endTime, c.selection.startTime)
      IN  k <= Len(transcription'[1].words) =>
            /\ transcription'[1].words[k].start = c.selection.startTime
            /\ transcription'[1].words[k].end
                 = RAdd(c.selection.startTime,
                        RMulFrac(span, Len(c.newText), Len(c.selection.selectedText)))

\* C25: splicer and reconciler are applied as a pair with the same window:
\* after any sequence of edits the current audio and the current transcript
\* have had the same edits applied, in the same order, and the window sent to
\* the splicer for an edit is the one its reconciliation uses.
C25_Paired == [](C25_State) /\ [][C25_Step]_vars

\* C26: after any sequence of selections (mouse, keyboard, region),
\* replacements and resets, a selection the page holds has
\* 0 <= startIndex <= endIndex < len(words) of the current transcript, also
\* when the editor's remembered anchor is used after a replacement has
\* shortened the token list.
C26_SelectionInRange ==
  (selection # None /\ transcription # None) =>
    /\ 0 <= selection[1].startIndex
    /\ selection[1].startIndex <= selection[1].endIndex
    /\ selection[1].endIndex < Len(transcription[1].words)

\* C27: when one of the parallel tasks has failed, no sibling task is still
\* running once spliceAudio has returned (its cleanup done), so none can
\* create or leave a file afterwards.
C27_NoTaskOutlivesSplice ==
  (sp.pc = "returned" /\ sp.firstErr # None) =>
    \A t \in TaskNames : sp.tasks[t] # "running"

\* the word tokens that share more than a point with the region, and those
\* that at least touch it
Overlapping(ws, start, end) ==
  { i \in 0..(Len(ws) - 1) :
      IsWord(ws[i + 1]) /\ RLt(ws[i + 1].start, end) /\ RLt(start, ws[i + 1].end) }
Touching(ws, start, end) ==
  { i \in 0..(Len(ws) - 1) :
      IsWord(ws[i + 1]) /\ RLe(ws[i + 1].start, end) /\ RLe(start, ws[i + 1].end) }

SetMin(S) == CHOOSE x \in S : \A y \in S : x <= y
SetMax(S) == CHOOSE x \in S : \A y \in S : y <= x

\* C28: for every region of the waveform that intersects a word token,
\* handleRegionSelect sets a Selection that runs from the first to the last
\* intersecting word, a word that begins inside the region and ends after it
\* included; it sets none only when no word intersects the region.
C28_RegionCoversWords ==
  (transcription # None /\ audioFile # None) =>
    \A start \in 0..MaxTime : \A end \in start..MaxTime :
      LET ws == transcription[1].words
          picked == RegionSelection(ws, R(start), R(end))
          over == Overlapping(ws, R(start), R(end))
          touch == Touching(ws, R(start), R(end))
      IN  (RLe(R(end), audioFile[1].dur) /\ over # {}) =>
            /\ picked # None
            /\ picked[1].startIndex <= SetMin(over)
            /\ picked[1].endIndex >= SetMax(over)
            /\ picked[1].startIndex >= SetMin(touch)
            /\ picked[1].endIndex <= SetMax(touch)

\* C29: no voice clone is leaked: whenever no generation is in progress,
\* every voice that has been created and not deleted is the one held in
\* voiceId, also after a synthesis has failed following a successful clone
\* and the user has generated again.
C29_NoVoiceLeaked ==
  ~GenProcessing => \A v \in gen.voices : gen.voiceId = Some(v)

====
